---------------------------- MODULE Spec2Model ----------------------------
(***************************************************************************)
(* A model of the validators crate: the integer validation traits with    *)
(* their default widening cascade (validators/src/traits.rs) and the       *)
(* wrapper types generated by the validated_customized_* macros, with      *)
(* their ValidatedWrapper and FromFormValue entry points, and the          *)
(* ValidatorOption model (src/lib.rs).                                     *)
(*                                                                         *)
(* Integers are modelled at their width: a value of an n-byte integer type *)
(* is the little-endian sequence of its n bytes (two's complement for the  *)
(* signed types), so that a widening conversion is a computation on the    *)
(* representation.  Text is a sequence of one-character strings.           *)
(***************************************************************************)
EXTENDS Integers, Sequences, FiniteSets, TLC

VARIABLES
    target_pointer_width,   \* the build target's pointer width in bits (cfg)
    features,               \* the cargo features the crate is built with (cfg)
    call,                   \* the last call of a trait entry point and its result
    given,                  \* the wrapper type and the raw input the program works on
    objs,                   \* the wrapper values alive in the calling program
    last,                   \* the last wrapper operation and what it returned
    threads                 \* the threads reading the wrapper in the variable a

vars == <<target_pointer_width, features, call, given, objs, last, threads>>

(***************************************************************************)
(* Result<T, E>                                                            *)
(***************************************************************************)
Ok(v) == [ok |-> TRUE, val |-> v]

Err(e) == [ok |-> FALSE, err |-> e]

Unit == <<>>

(***************************************************************************)
(* Fixed-width integers as byte sequences.                                 *)
(***************************************************************************)
RECURSIVE Encode(_, _)
\* The n-byte two's complement representation of the integer v.
Encode(v, n) == IF n = 0 THEN <<>> ELSE <<v % 256>> \o Encode(v \div 256, n - 1)

\* The least and the greatest value of the n-byte signed type.
MinOf(n) == [k \in 1..n |-> IF k = n THEN 128 ELSE 0]

MaxOf(n) == [k \in 1..n |-> IF k = n THEN 127 ELSE 255]

\* The greatest value of the n-byte unsigned type.
UMaxOf(n) == [k \in 1..n |-> 255]

IsNegative(i) == i[Len(i)] >= 128

\* Lossless widening of a signed value to n bytes (From between signed types).
SignExtend(i, n) ==
    [k \in 1..n |-> IF k <= Len(i) THEN i[k] ELSE IF IsNegative(i) THEN 255 ELSE 0]

\* Lossless widening of an unsigned value to n bytes (From between unsigned types).
ZeroExtend(u, n) == [k \in 1..n |-> IF k <= Len(u) THEN u[k] ELSE 0]

\* `i as iN`: truncation to the low n bytes, or sign extension.
AsSigned(i, n) == IF Len(i) >= n THEN SubSeq(i, 1, n) ELSE SignExtend(i, n)

\* `u as uN`: truncation to the low n bytes, or zero extension.
AsUnsigned(u, n) == IF Len(u) >= n THEN SubSeq(u, 1, n) ELSE ZeroExtend(u, n)

i16_from(i) == SignExtend(i, 2)

i32_from(i) == SignExtend(i, 4)

i64_from(i) == SignExtend(i, 8)

i128_from(i) == SignExtend(i, 16)

u16_from(u) == ZeroExtend(u, 2)

u32_from(u) == ZeroExtend(u, 4)

u64_from(u) == ZeroExtend(u, 8)

u128_from(u) == ZeroExtend(u, 16)

(***************************************************************************)
(* The implementer of an integer validation trait.  Only the 128-bit pair  *)
(* is required; an implementer is modelled by the predicate each of the    *)
(* two required methods applies to its 128-bit argument.                   *)
(***************************************************************************)
SampleRange == 5

RangeMax == 100

\* The 128-bit values an implementer's "range" predicate accepts.
RangeSet == {Encode(v, 16) : v \in (-SampleRange)..RangeMax}

Predicates == {"range", "nonneg", "even"}

Holds(p, x) ==
    CASE p = "range" -> x \in RangeSet
      [] p = "nonneg" -> ~IsNegative(x)
      [] p = "even" -> x[1] % 2 = 0

\* The default methods an implementer may define itself.
Overridable ==
    {m \o t : m \in {"parse_i", "validate_i", "parse_u", "validate_u"},
              t \in {"8", "16", "32", "64"}}

ParseMethods == {"parse_i" \o t : t \in {"8", "16", "32", "64"}}
                    \cup {"parse_u" \o t : t \in {"8", "16", "32", "64"}}

\* The implementers: those that define the required pair only, and those
\* that also define one of the provided methods themselves.
Impls ==
    [validate : Predicates, parse : Predicates, over : {"none"}]
        \cup [validate : {"range"}, parse : {"range"}, over : Overridable]

\* The method an implementer wrote in place of a default one: it accepts the
\* odd values of its own width.
Overridden(method, x) ==
    IF x[1] % 2 = 1
    THEN IF method \in ParseMethods THEN Ok(x) ELSE Ok(Unit)
    ELSE Err([rule |-> "odd", by |-> method])

\* Self::method(x): the implementer's own method where it defines one, the
\* provided method otherwise.
Self(impl, method, x, provided) ==
    IF impl.over = method THEN Overridden(method, x) ELSE provided

(***************************************************************************)
(* trait ValidateSignedInteger                                             *)
(***************************************************************************)
parse_i128(impl, i) ==
    IF Holds(impl.parse, i) THEN Ok(i) ELSE Err([rule |-> impl.parse])

validate_i128(impl, i) ==
    IF Holds(impl.validate, i) THEN Ok(Unit) ELSE Err([rule |-> impl.validate])

parse_i64(impl, i) == parse_i128(impl, i128_from(i))

parse_i32(impl, i) == Self(impl, "parse_i64", i64_from(i), parse_i64(impl, i64_from(i)))

parse_i16(impl, i) == Self(impl, "parse_i32", i32_from(i), parse_i32(impl, i32_from(i)))

parse_i8(impl, i) == Self(impl, "parse_i16", i16_from(i), parse_i16(impl, i16_from(i)))

parse_isize(impl, i) ==
    CASE target_pointer_width = 128 -> parse_i128(impl, i128_from(i))
      [] target_pointer_width = 32 -> Self(impl, "parse_i32", AsSigned(i, 4), parse_i32(impl, AsSigned(i, 4)))
      [] target_pointer_width = 16 -> Self(impl, "parse_i16", AsSigned(i, 2), parse_i16(impl, AsSigned(i, 2)))
      [] target_pointer_width = 8 -> Self(impl, "parse_i8", AsSigned(i, 1), parse_i8(impl, AsSigned(i, 1)))
      [] OTHER -> Self(impl, "parse_i64", AsSigned(i, 8), parse_i64(impl, AsSigned(i, 8)))

validate_i64(impl, i) == validate_i128(impl, i128_from(i))

validate_i32(impl, i) == Self(impl, "validate_i64", i64_from(i), validate_i64(impl, i64_from(i)))

\* A validate_i16 that widens to 128 bits at once.
validate_i16_to_widest(impl, i) == validate_i128(impl, SignExtend(i, 16))

validate_i16(impl, i) == Self(impl, "validate_i32", i32_from(i), validate_i32(impl, i32_from(i)))

\* A validate_i8 that widens the bit pattern without its sign.
validate_i8_zero_extends(impl, i) == Self(impl, "validate_i16", ZeroExtend(i, 2), validate_i16(impl, ZeroExtend(i, 2)))

validate_i8(impl, i) == Self(impl, "validate_i16", i16_from(i), validate_i16(impl, i16_from(i)))

\* A validate_isize that takes the 64-bit path on every target.
validate_isize_by_i64(impl, i) ==
    Self(impl, "validate_i64", AsSigned(i, 8), validate_i64(impl, AsSigned(i, 8)))

validate_isize(impl, i) ==
    CASE target_pointer_width = 128 -> validate_i128(impl, i128_from(i))
      [] target_pointer_width = 32 -> Self(impl, "validate_i32", AsSigned(i, 4), validate_i32(impl, AsSigned(i, 4)))
      [] target_pointer_width = 16 -> Self(impl, "validate_i16", AsSigned(i, 2), validate_i16(impl, AsSigned(i, 2)))
      [] target_pointer_width = 8 -> Self(impl, "validate_i8", AsSigned(i, 1), validate_i8(impl, AsSigned(i, 1)))
      [] OTHER -> Self(impl, "validate_i64", AsSigned(i, 8), validate_i64(impl, AsSigned(i, 8)))

(***************************************************************************)
(* trait ValidateUnsignedInteger                                           *)
(***************************************************************************)
parse_u128(impl, u) ==
    IF Holds(impl.parse, u) THEN Ok(u) ELSE Err([rule |-> impl.parse])

validate_u128(impl, u) ==
    IF Holds(impl.validate, u) THEN Ok(Unit) ELSE Err([rule |-> impl.validate])

parse_u64(impl, u) == parse_u128(impl, u128_from(u))

parse_u32(impl, u) == Self(impl, "parse_u64", u64_from(u), parse_u64(impl, u64_from(u)))

\* A parse_u16 that answers for itself instead of delegating.
parse_u16_accepts(impl, u) == Ok(u)

parse_u16(impl, u) == Self(impl, "parse_u32", u32_from(u), parse_u32(impl, u32_from(u)))

parse_u8(impl, u) == Self(impl, "parse_u16", u16_from(u), parse_u16(impl, u16_from(u)))

parse_usize(impl, u) ==
    CASE target_pointer_width = 128 -> parse_u128(impl, u128_from(u))
      [] target_pointer_width = 32 -> Self(impl, "parse_u32", AsUnsigned(u, 4), parse_u32(impl, AsUnsigned(u, 4)))
      [] target_pointer_width = 16 -> Self(impl, "parse_u16", AsUnsigned(u, 2), parse_u16(impl, AsUnsigned(u, 2)))
      [] target_pointer_width = 8 -> Self(impl, "parse_u8", AsUnsigned(u, 1), parse_u8(impl, AsUnsigned(u, 1)))
      [] OTHER -> Self(impl, "parse_u64", AsUnsigned(u, 8), parse_u64(impl, AsUnsigned(u, 8)))

validate_u64(impl, u) == validate_u128(impl, u128_from(u))

validate_u32(impl, u) == Self(impl, "validate_u64", u64_from(u), validate_u64(impl, u64_from(u)))

validate_u16(impl, u) == Self(impl, "validate_u32", u32_from(u), validate_u32(impl, u32_from(u)))

validate_u8(impl, u) == Self(impl, "validate_u16", u16_from(u), validate_u16(impl, u16_from(u)))

validate_usize(impl, u) ==
    CASE target_pointer_width = 128 -> validate_u128(impl, u128_from(u))
      [] target_pointer_width = 32 -> Self(impl, "validate_u32", AsUnsigned(u, 4), validate_u32(impl, AsUnsigned(u, 4)))
      [] target_pointer_width = 16 -> Self(impl, "validate_u16", AsUnsigned(u, 2), validate_u16(impl, AsUnsigned(u, 2)))
      [] target_pointer_width = 8 -> Self(impl, "validate_u8", AsUnsigned(u, 1), validate_u8(impl, AsUnsigned(u, 1)))
      [] OTHER -> Self(impl, "validate_u64", AsUnsigned(u, 8), validate_u64(impl, AsUnsigned(u, 8)))

(***************************************************************************)
(* Calls of the trait entry points.                                        *)
(***************************************************************************)
PointerWidths == {8, 16, 32, 64, 128}

FixedTypes == {"8", "16", "32", "64", "128"}

EntryTypes == FixedTypes \cup {"size"}

\* The size in bytes of the argument of the entry point for type ty.
BytesOf(ty) ==
    CASE ty = "8" -> 1
      [] ty = "16" -> 2
      [] ty = "32" -> 4
      [] ty = "64" -> 8
      [] ty = "128" -> 16
      [] ty = "size" -> target_pointer_width \div 8

SignedInputs(n) ==
    {Encode(v, n) : v \in (-SampleRange)..SampleRange}
        \cup {MinOf(n), MaxOf(n), Encode(100, n), Encode(101, n)}

UnsignedInputs(n) ==
    {Encode(v, n) : v \in 0..SampleRange}
        \cup {MinOf(n), UMaxOf(n), Encode(100, n), Encode(101, n)}

ParseSigned(impl, ty, i) ==
    CASE ty = "8" -> Self(impl, "parse_i8", i, parse_i8(impl, i))
      [] ty = "16" -> Self(impl, "parse_i16", i, parse_i16(impl, i))
      [] ty = "32" -> Self(impl, "parse_i32", i, parse_i32(impl, i))
      [] ty = "64" -> Self(impl, "parse_i64", i, parse_i64(impl, i))
      [] ty = "128" -> parse_i128(impl, i)
      [] ty = "size" -> parse_isize(impl, i)

ValidateSigned(impl, ty, i) ==
    CASE ty = "8" -> Self(impl, "validate_i8", i, validate_i8(impl, i))
      [] ty = "16" -> Self(impl, "validate_i16", i, validate_i16(impl, i))
      [] ty = "32" -> Self(impl, "validate_i32", i, validate_i32(impl, i))
      [] ty = "64" -> Self(impl, "validate_i64", i, validate_i64(impl, i))
      [] ty = "128" -> validate_i128(impl, i)
      [] ty = "size" -> validate_isize(impl, i)

ParseUnsigned(impl, ty, u) ==
    CASE ty = "8" -> Self(impl, "parse_u8", u, parse_u8(impl, u))
      [] ty = "16" -> Self(impl, "parse_u16", u, parse_u16(impl, u))
      [] ty = "32" -> Self(impl, "parse_u32", u, parse_u32(impl, u))
      [] ty = "64" -> Self(impl, "parse_u64", u, parse_u64(impl, u))
      [] ty = "128" -> parse_u128(impl, u)
      [] ty = "size" -> parse_usize(impl, u)

ValidateUnsigned(impl, ty, u) ==
    CASE ty = "8" -> Self(impl, "validate_u8", u, validate_u8(impl, u))
      [] ty = "16" -> Self(impl, "validate_u16", u, validate_u16(impl, u))
      [] ty = "32" -> Self(impl, "validate_u32", u, validate_u32(impl, u))
      [] ty = "64" -> Self(impl, "validate_u64", u, validate_u64(impl, u))
      [] ty = "128" -> validate_u128(impl, u)
      [] ty = "size" -> validate_usize(impl, u)

\* The state before the program's call: the implementer, the entry point and
\* the argument the program is about to use.
NoCall ==
    [trait |-> "none", method |-> "none", ty |-> "none",
     impl |-> [validate |-> "none", parse |-> "none", over |-> "none"], arg |-> <<>>, result |-> Ok(Unit)]

CallParseSigned ==
    /\ call.method = "none"
    /\ call.arg \in SignedInputs(BytesOf(call.ty))
    /\ call' = [call EXCEPT !.trait = "ValidateSignedInteger", !.method = "parse",
                            !.result = ParseSigned(call.impl, call.ty, call.arg)]
    /\ UNCHANGED <<threads, target_pointer_width, features, given, objs, last>>

CallValidateSigned ==
    /\ call.method = "none"
    /\ call.arg \in SignedInputs(BytesOf(call.ty))
    /\ call' = [call EXCEPT !.trait = "ValidateSignedInteger", !.method = "validate",
                            !.result = ValidateSigned(call.impl, call.ty, call.arg)]
    /\ UNCHANGED <<threads, target_pointer_width, features, given, objs, last>>

CallParseUnsigned ==
    /\ call.method = "none"
    /\ call.arg \in UnsignedInputs(BytesOf(call.ty))
    /\ call' = [call EXCEPT !.trait = "ValidateUnsignedInteger", !.method = "parse",
                            !.result = ParseUnsigned(call.impl, call.ty, call.arg)]
    /\ UNCHANGED <<threads, target_pointer_width, features, given, objs, last>>

CallValidateUnsigned ==
    /\ call.method = "none"
    /\ call.arg \in UnsignedInputs(BytesOf(call.ty))
    /\ call' = [call EXCEPT !.trait = "ValidateUnsignedInteger", !.method = "validate",
                            !.result = ValidateUnsigned(call.impl, call.ty, call.arg)]
    /\ UNCHANGED <<threads, target_pointer_width, features, given, objs, last>>

(***************************************************************************)
(* Text.  A String or &str is its sequence of characters.                  *)
(***************************************************************************)
RECURSIVE TextsUpTo(_, _)
\* Every text of at most n characters over the alphabet.
TextsUpTo(alphabet, n) ==
    IF n = 0 THEN {<<>>}
    ELSE LET shorter == TextsUpTo(alphabet, n - 1)
         IN  shorter \cup {Append(t, c) : t \in shorter, c \in alphabet}

\* str::to_string: a new String holding a copy of the characters.
to_string(s) == [k \in 1..Len(s) |-> s[k]]

Digits == <<"0", "1", "2", "3", "4", "5", "6", "7", "8", "9">>

DigitSet == {Digits[k] : k \in 1..10}

\* char::to_digit(10) of a decimal digit.
DigitValue(c) == (CHOOSE k \in 1..10 : Digits[k] = c) - 1

RECURSIVE DecimalOfNat(_)
DecimalOfNat(n) ==
    IF n < 10 THEN <<Digits[n + 1]>>
    ELSE Append(DecimalOfNat(n \div 10), Digits[(n % 10) + 1])

\* The Display form (and to_string) of a primitive integer.
ToDecimal(n) == IF n < 0 THEN <<"-">> \o DecimalOfNat(-n) ELSE DecimalOfNat(n)

(***************************************************************************)
(* The numeric types the number wrappers are instantiated with, and        *)
(* str::parse for them.                                                    *)
(***************************************************************************)
IsSignedTy(t) == t = "i8"

TyMin(t) == IF t = "i8" THEN -128 ELSE 0

TyMax(t) == IF t = "i8" THEN 127 ELSE 255

ErrEmpty == "cannot parse integer from empty string"

ErrInvalidDigit == "invalid digit found in string"

ErrPosOverflow == "number too large to fit in target type"

ErrNegOverflow == "number too small to fit in target type"

RECURSIVE ParseDigits(_, _, _, _, _)
\* The digit loop of from_str_radix: the digits from position k on, folded
\* into acc with checked arithmetic; the first failure ends the loop.
ParseDigits(t, s, k, acc, positive) ==
    IF k > Len(s) THEN Ok(acc)
    ELSE IF s[k] \notin DigitSet THEN Err(ErrInvalidDigit)
    ELSE LET x == DigitValue(s[k])
             r == IF positive THEN acc * 10 + x ELSE acc * 10 - x
         IN  IF r > TyMax(t) THEN Err(ErrPosOverflow)
             ELSE IF r < TyMin(t) THEN Err(ErrNegOverflow)
             ELSE ParseDigits(t, s, k + 1, r, positive)

\* s.parse::<t>()
ParseInt(t, s) ==
    IF s = <<>> THEN Err(ErrEmpty)
    ELSE IF s \in {<<"+">>, <<"-">>} THEN Err(ErrInvalidDigit)
    ELSE IF s[1] = "+" THEN ParseDigits(t, s, 2, 0, TRUE)
    ELSE IF s[1] = "-" /\ IsSignedTy(t) THEN ParseDigits(t, s, 2, 0, FALSE)
    ELSE ParseDigits(t, s, 1, 0, TRUE)

\* An f64 of the program is a whole number smaller than F64Whole, which an
\* f64 holds exactly, or the NaN, which the model names by a number of its own.
F64Whole == 16777216

NaN == F64Whole + 1

ErrFloatEmpty == "cannot parse float from empty string"

ErrFloatInvalid == "invalid float literal"

RECURSIVE ParseFloatDigits(_, _, _)
\* The digits of a decimal literal without fraction or exponent.
ParseFloatDigits(s, k, acc) ==
    IF k > Len(s) THEN Ok(acc)
    ELSE IF s[k] \notin DigitSet THEN Err(ErrFloatInvalid)
    ELSE ParseFloatDigits(s, k + 1, acc * 10 + DigitValue(s[k]))

\* s.parse::<f64>(), on the literals the program gives it: a sign, digits,
\* and the spelling NaN.
ParseFloat(s) ==
    IF s = <<>> THEN Err(ErrFloatEmpty)
    ELSE IF s = <<"N", "a", "N">> THEN Ok(NaN)
    ELSE IF s \in {<<"+">>, <<"-">>} THEN Err(ErrFloatInvalid)
    ELSE IF s[1] = "+" THEN ParseFloatDigits(s, 2, 0)
    ELSE IF s[1] = "-"
         THEN LET m == ParseFloatDigits(s, 2, 0)
              IN  IF m.ok THEN Ok(-m.val) ELSE m
    ELSE ParseFloatDigits(s, 1, 0)

\* s.parse::<t>()
Parse(t, s) == IF t = "f64" THEN ParseFloat(s) ELSE ParseInt(t, s)

\* The Display form of a value of the numeric type t.
DisplayOf(t, x) == IF t = "f64" /\ x = NaN THEN <<"N", "a", "N">> ELSE ToDecimal(x)

\* x == y on the numeric type t: a NaN is equal to nothing.
PrimEq(t, x, y) == IF t = "f64" THEN x # NaN /\ y # NaN /\ x = y ELSE x = y

\* x != y on the numeric type t.
PrimNe(t, x, y) == IF t = "f64" THEN x = NaN \/ y = NaN \/ x # y ELSE x # y

(***************************************************************************)
(* The pattern-matching collaborator.  A pattern is its source text        *)
(* together with what the regex crate makes of it: whether it parses, the  *)
(* size of its compiled program, its anchors and its expression.           *)
(***************************************************************************)
REGEX_SIZE_LIMIT == 26214400

Lit(s) == [k |-> "lit", s |-> s]

Alt(alts) == [k |-> "alt", alts |-> alts]

Plus(cls) == [k |-> "plus", cls |-> cls]

Hi == <<"H", "i">>

Hello == <<"H", "e", "l", "l", "o">>

Hey == <<"H", "e", "y">>

\* "^(Hi|Hello)$"
GreetRe ==
    [src |-> "^(Hi|Hello)$", syntax_ok |-> TRUE, size |-> 1024,
     start |-> TRUE, end |-> TRUE, expr |-> Alt(<<Lit(Hi), Lit(Hello)>>)]

\* "^(Hi|Hello$": the group is never closed.
UnclosedRe ==
    [src |-> "^(Hi|Hello$", syntax_ok |-> FALSE, size |-> 0,
     start |-> TRUE, end |-> TRUE, expr |-> Lit(<<>>)]

\* "^[0-9]+$"
DigitsRe ==
    [src |-> "^[0-9]+$", syntax_ok |-> TRUE, size |-> 1024,
     start |-> TRUE, end |-> TRUE, expr |-> Plus(DigitSet)]

\* "1+": unanchored.
OnesRe ==
    [src |-> "1+", syntax_ok |-> TRUE, size |-> 512,
     start |-> FALSE, end |-> FALSE, expr |-> Plus({"1"})]

\* A pattern whose compiled program exceeds the size limit.
HugeRe ==
    [src |-> "^[0-9]{1,1000000}$", syntax_ok |-> TRUE, size |-> REGEX_SIZE_LIMIT + 1,
     start |-> TRUE, end |-> TRUE, expr |-> Plus(DigitSet)]

\* RegexBuilder::new(re).size_limit(limit).build()
RegexBuild(re, limit) ==
    IF ~re.syntax_ok THEN Err([kind |-> "Syntax", src |-> re.src])
    ELSE IF re.size > limit THEN Err([kind |-> "CompiledTooBig", limit |-> limit])
    ELSE Ok(re)

RECURSIVE FullMatch(_, _)
\* The expression matches the whole of t.
FullMatch(e, t) ==
    CASE e.k = "lit" -> t = e.s
      [] e.k = "alt" -> \E n \in 1..Len(e.alts) : FullMatch(e.alts[n], t)
      [] e.k = "plus" -> Len(t) >= 1 /\ \A n \in 1..Len(t) : t[n] \in e.cls

\* An is_match that takes no account of the anchors.
is_match_anywhere(re, t) ==
    \E i \in 1..(Len(t) + 1) :
       \E j \in (i - 1)..Len(t) : FullMatch(re.expr, SubSeq(t, i, j))

\* Regex::is_match: some part of t matches, at the ends the anchors ask for.
is_match(re, t) ==
    \E i \in 1..(Len(t) + 1) :
       \E j \in (i - 1)..Len(t) :
          /\ re.start => i = 1
          /\ re.end => j = Len(t)
          /\ FullMatch(re.expr, SubSeq(t, i, j))

(***************************************************************************)
(* The wrapper types the calling program declares with the macros.         *)
(***************************************************************************)
\* validated_customized_regex_string!(Greet, "^(Hi|Hello)$");
Greet == [name |-> "Greet", ident |-> <<"G", "r", "e", "e", "t">>,
          family |-> "regex_string", re |-> GreetRe]

\* validated_customized_regex_string!(Unclosed, "^(Hi|Hello$");
Unclosed == [name |-> "Unclosed", ident |-> <<"U">>,
             family |-> "regex_string", re |-> UnclosedRe]

\* validated_customized_ranged_number!(Score, u8, 0, 100);
Score == [name |-> "Score", ident |-> <<"S", "c", "o", "r", "e">>,
          family |-> "ranged_number", t |-> "u8", min |-> 0, max |-> 100]

\* validated_customized_ranged_number!(Level, i8, 0, 100);
Level == [name |-> "Level", ident |-> <<"L">>,
          family |-> "ranged_number", t |-> "i8", min |-> 0, max |-> 100]

\* validated_customized_regex_number!(Count, u8, "^[0-9]+$");
Count == [name |-> "Count", ident |-> <<"C">>,
          family |-> "regex_number", t |-> "u8", re |-> DigitsRe]

\* validated_customized_regex_number!(Ones, i8, "1+");
Ones == [name |-> "Ones", ident |-> <<"O">>,
         family |-> "regex_number", t |-> "i8", re |-> OnesRe]

\* validated_customized_regex_number!(Huge, u8, "^[0-9]{1,1000000}$");
Huge == [name |-> "Huge", ident |-> <<"H">>,
         family |-> "regex_number", t |-> "u8", re |-> HugeRe]

\* validated_customized_primitive_number!(Octet, u8);
Octet == [name |-> "Octet", ident |-> <<"O", "c">>,
          family |-> "primitive_number", t |-> "u8"]

\* validated_customized_ranged_length_vec!(Names, 1, 5);
Names == [name |-> "Names", ident |-> <<"N", "a", "m", "e", "s">>,
          family |-> "ranged_length_vec", min |-> 1, max |-> 5]

\* validated_customized_ranged_length_vec!(Pair, 2);
Pair == [name |-> "Pair", ident |-> <<"P">>,
         family |-> "ranged_length_vec", min |-> 2, max |-> 2]

\* validated_customized_ranged_length_vec!(Inverted, 4, 2);
Inverted == [name |-> "Inverted", ident |-> <<"I">>,
             family |-> "ranged_length_vec", min |-> 4, max |-> 2]

\* validated_customized_primitive_number!(Ratio, f64);
Ratio == [name |-> "Ratio", ident |-> <<"R">>,
          family |-> "primitive_number", t |-> "f64"]

StringTypes == {Greet, Unclosed}

NumberTypes == {Score, Level, Count, Ones, Huge, Octet, Ratio}

VecTypes == {Names, Pair, Inverted}

Types == StringTypes \cup NumberTypes \cup VecTypes

TypeNamed(n) == CHOOSE T \in Types : T.name = n

\* A value of the generated struct: its single field.
Wrapper(T, field) == [alive |-> TRUE, ty |-> T.name, field |-> field]

(***************************************************************************)
(* The error enums.                                                        *)
(***************************************************************************)
RegexError(e) == [variant |-> "RegexError", detail |-> e]

NotMatch == [variant |-> "NotMatch"]

ParseError(msg) == [variant |-> "ParseError", detail |-> msg]

OutRange == [variant |-> "OutRange"]

Overflow == [variant |-> "Overflow"]

Underflow == [variant |-> "Underflow"]

NotSupport == [variant |-> "NotSupport"]

UTF8Error(e) == [variant |-> "UTF8Error", detail |-> e]

(***************************************************************************)
(* Customized strings.                                                     *)
(***************************************************************************)
\* The from_string block of validated_customized_regex_string_struct.
RegexStringFromString(T, input) ==
    LET re == RegexBuild(T.re, REGEX_SIZE_LIMIT)
    IN  IF ~re.ok THEN Err(RegexError(re.err))
        ELSE IF is_match(re.val, input) THEN Ok(input)
        ELSE Err(NotMatch)

\* A from_str block that compiles the pattern and never tests the input.
RegexStringFromStr_untested(T, input) ==
    LET re == RegexBuild(T.re, REGEX_SIZE_LIMIT)
    IN  IF ~re.ok THEN Err(RegexError(re.err)) ELSE Ok(to_string(input))

\* The from_str block of validated_customized_regex_string_struct.
RegexStringFromStr(T, input) ==
    LET re == RegexBuild(T.re, REGEX_SIZE_LIMIT)
    IN  IF ~re.ok THEN Err(RegexError(re.err))
        ELSE IF is_match(re.val, input) THEN Ok(to_string(input))
        ELSE Err(NotMatch)

\* $name::from_string of validated_customized_string_struct.
StringFromString(T, input) ==
    LET r == RegexStringFromString(T, input)
    IN  IF r.ok THEN Ok(Wrapper(T, r.val)) ELSE Err(r.err)

\* A from_str that wraps the text whatever the rule answered.
StringFromStr_lenient(T, input) == Ok(Wrapper(T, to_string(input)))

\* $name::from_str of validated_customized_string_struct.
StringFromStr(T, input) ==
    LET r == RegexStringFromStr(T, input)
    IN  IF r.ok THEN Ok(Wrapper(T, r.val)) ELSE Err(r.err)

StringAsStr(o) == o.field

StringClone(o) == [o EXCEPT !.field = to_string(o.field)]

StringDebug(o) == TypeNamed(o.ty).ident \o <<"(">> \o o.field \o <<")">>

\* A Display that writes what Debug writes.
StringDisplay_as_debug(o) == StringDebug(o)

StringDisplay(o) == o.field

StringEq(o, other) == o.field = other.field

StringNe(o, other) == o.field # other.field

(***************************************************************************)
(* Customized numbers.                                                     *)
(***************************************************************************)
\* input.parse::<$t>().map_err(|err| ParseError(err.to_string()))
ParseNumber(t, input) ==
    LET r == Parse(t, input)
    IN  IF r.ok THEN r ELSE Err(ParseError(r.err))

\* The from_string block of validated_customized_regex_number_struct.
RegexNumberFromString(T, input) ==
    LET re == RegexBuild(T.re, REGEX_SIZE_LIMIT)
    IN  IF ~re.ok THEN Err(RegexError(re.err))
        ELSE IF is_match(re.val, input) THEN ParseNumber(T.t, input)
        ELSE Err(NotMatch)

\* A from_str block that parses the text before it tests the pattern.
RegexNumberFromStr_parse_first(T, input) ==
    LET re == RegexBuild(T.re, REGEX_SIZE_LIMIT)
        n == ParseNumber(T.t, input)
    IN  IF ~re.ok THEN Err(RegexError(re.err))
        ELSE IF ~n.ok THEN n
        ELSE IF is_match(re.val, input) THEN n
        ELSE Err(NotMatch)

\* The from_str block of validated_customized_regex_number_struct.
RegexNumberFromStr(T, input) ==
    LET re == RegexBuild(T.re, REGEX_SIZE_LIMIT)
    IN  IF ~re.ok THEN Err(RegexError(re.err))
        ELSE IF is_match(re.val, input) THEN ParseNumber(T.t, input)
        ELSE Err(NotMatch)

\* The from_number block of validated_customized_regex_number_struct.
RegexNumberFromNumber(T, number) ==
    LET input == ToDecimal(number)
        re == RegexBuild(T.re, REGEX_SIZE_LIMIT)
    IN  IF ~re.ok THEN Err(RegexError(re.err))
        ELSE IF is_match(re.val, input) THEN ParseNumber(T.t, input)
        ELSE Err(NotMatch)

\* A from_string block that reports text that does not parse as OutRange.
RangedNumberFromString_out_range(T, text) ==
    LET input == ParseNumber(T.t, text)
    IN  IF ~input.ok THEN Err(OutRange)
        ELSE IF input.val >= T.min /\ input.val <= T.max THEN Ok(input.val)
        ELSE Err(OutRange)

\* The from_string block of validated_customized_ranged_number_struct.
RangedNumberFromString(T, text) ==
    LET input == ParseNumber(T.t, text)
    IN  IF ~input.ok THEN input
        ELSE IF input.val >= T.min /\ input.val <= T.max THEN Ok(input.val)
        ELSE Err(OutRange)

\* A from_str block that asks for either bound instead of both.
RangedNumberFromStr_either(T, text) ==
    LET input == ParseNumber(T.t, text)
    IN  IF ~input.ok THEN input
        ELSE IF input.val >= T.min \/ input.val <= T.max THEN Ok(input.val)
        ELSE Err(OutRange)

\* A from_str block whose interval is open at max.
RangedNumberFromStr_open(T, text) ==
    LET input == ParseNumber(T.t, text)
    IN  IF ~input.ok THEN input
        ELSE IF input.val >= T.min /\ input.val < T.max THEN Ok(input.val)
        ELSE Err(OutRange)

\* The from_str block of validated_customized_ranged_number_struct.
RangedNumberFromStr(T, text) ==
    LET input == ParseNumber(T.t, text)
    IN  IF ~input.ok THEN input
        ELSE IF input.val >= T.min /\ input.val <= T.max THEN Ok(input.val)
        ELSE Err(OutRange)

\* The from_number block of validated_customized_ranged_number_struct.
RangedNumberFromNumber(T, input) ==
    IF input >= T.min /\ input <= T.max THEN Ok(input) ELSE Err(OutRange)

\* The from_string block of validated_customized_primitive_number_struct.
PrimitiveNumberFromString(T, text) == ParseNumber(T.t, text)

\* The from_str block of validated_customized_primitive_number_struct.
PrimitiveNumberFromStr(T, text) == ParseNumber(T.t, text)

\* The from_number block of validated_customized_primitive_number_struct.
PrimitiveNumberFromNumber(T, input) == Ok(input)

\* The $from_string block the macro was given.
NumberFromStringBlock(T, input) ==
    CASE T.family = "regex_number" -> RegexNumberFromString(T, input)
      [] T.family = "ranged_number" -> RangedNumberFromString(T, input)
      [] T.family = "primitive_number" -> PrimitiveNumberFromString(T, input)

\* The $from_str block the macro was given.
NumberFromStrBlock(T, input) ==
    CASE T.family = "regex_number" -> RegexNumberFromStr(T, input)
      [] T.family = "ranged_number" -> RangedNumberFromStr(T, input)
      [] T.family = "primitive_number" -> PrimitiveNumberFromStr(T, input)

\* The $from_number block the macro was given.
NumberFromNumberBlock(T, input) ==
    CASE T.family = "regex_number" -> RegexNumberFromNumber(T, input)
      [] T.family = "ranged_number" -> RangedNumberFromNumber(T, input)
      [] T.family = "primitive_number" -> PrimitiveNumberFromNumber(T, input)

\* The associated functions `impl $name` of validated_customized_number_struct
\* defines.  The macro takes the $from_number block and expands it nowhere.
NumberStructFns == {"get_number", "from_string", "from_str"}

\* $name::from_string of validated_customized_number_struct.
NumberFromString(T, input) ==
    LET r == NumberFromStringBlock(T, input)
    IN  IF r.ok THEN Ok(Wrapper(T, r.val)) ELSE Err(r.err)

\* $name::from_str of validated_customized_number_struct.
NumberFromStr(T, input) ==
    LET r == NumberFromStrBlock(T, input)
    IN  IF r.ok THEN Ok(Wrapper(T, r.val)) ELSE Err(r.err)

NumberGetNumber(o) == o.field

NumberClone(o) == [o EXCEPT !.field = o.field]

NumberDebug(o) ==
    TypeNamed(o.ty).ident \o <<"(">> \o DisplayOf(TypeNamed(o.ty).t, o.field) \o <<")">>

\* A Display that writes what Debug writes.
NumberDisplay_as_debug(o) == NumberDebug(o)

NumberDisplay(o) == DisplayOf(TypeNamed(o.ty).t, o.field)

NumberEq(o, other) == PrimEq(TypeNamed(o.ty).t, o.field, other.field)

NumberNe(o, other) == PrimNe(TypeNamed(o.ty).t, o.field, other.field)

(***************************************************************************)
(* Customized vecs.  The elements are wrapper values themselves; the       *)
(* program's vecs hold Greet values.                                       *)
(***************************************************************************)
\* The default from_string block of validated_customized_ranged_length_vec.
RangedLengthVecFromString(T, input) == Err(NotSupport)

\* A from_str block that reads every text as the empty vec.
RangedLengthVecFromStr_empty(T, input) == Ok(<<>>)

\* The default from_str block of validated_customized_ranged_length_vec.
RangedLengthVecFromStr(T, input) == Err(NotSupport)

\* A from_vec block that takes a vec of max elements for too long.
RangedLengthVecFromVec_ge(T, input) ==
    LET len == Len(input)
    IN  IF len >= T.max THEN Err(Overflow)
        ELSE IF len < T.min THEN Err(Underflow)
        ELSE Ok(input)

\* A from_vec block that tests the lower bound first.
RangedLengthVecFromVec_underflow_first(T, input) ==
    LET len == Len(input)
    IN  IF len < T.min THEN Err(Underflow)
        ELSE IF len > T.max THEN Err(Overflow)
        ELSE Ok(input)

\* The from_vec block of validated_customized_ranged_length_vec_struct.
RangedLengthVecFromVec(T, input) ==
    LET len == Len(input)
    IN  IF len > T.max THEN Err(Overflow)
        ELSE IF len < T.min THEN Err(Underflow)
        ELSE Ok(input)

\* $name::from_string of validated_customized_vec_struct.
VecFromString(T, input) ==
    LET r == RangedLengthVecFromString(T, input)
    IN  IF r.ok THEN Ok(Wrapper(T, r.val)) ELSE Err(r.err)

\* $name::from_str of validated_customized_vec_struct.
VecFromStr(T, input) ==
    LET r == RangedLengthVecFromStr(T, input)
    IN  IF r.ok THEN Ok(Wrapper(T, r.val)) ELSE Err(r.err)

\* $name::from_vec of validated_customized_vec_struct.
VecFromVec(T, input) ==
    LET r == RangedLengthVecFromVec(T, input)
    IN  IF r.ok THEN Ok(Wrapper(T, r.val)) ELSE Err(r.err)

VecAsVec(o) == o.field

\* An into_vec that hands the elements out last to first.
VecIntoVec_reversed(o) == [k \in 1..Len(o.field) |-> o.field[Len(o.field) + 1 - k]]

VecIntoVec(o) == o.field

VecClone(o) == [o EXCEPT !.field = [k \in 1..Len(o.field) |-> StringClone(o.field[k])]]

RECURSIVE VecDebugLoop(_, _)
\* for n in field.iter().skip(1) { Debug::fmt(n, f)?; f.write_str(", ")?; }
VecDebugLoop(v, k) ==
    IF k > Len(v) THEN <<>>
    ELSE StringDebug(v[k]) \o <<",", " ">> \o VecDebugLoop(v, k + 1)

VecDebug(o) ==
    LET len == Len(o.field)
    IN  TypeNamed(o.ty).ident \o <<"[">>
            \o (IF len > 0 THEN VecDebugLoop(o.field, 2) \o StringDebug(o.field[len])
                ELSE <<>>)
            \o <<"]">>

RECURSIVE VecDisplayLoop(_, _)
\* for n in field.iter().skip(1) { Display::fmt(n, f)?; f.write_str(", ")?; }
VecDisplayLoop(v, k) ==
    IF k > Len(v) THEN <<>>
    ELSE StringDisplay(v[k]) \o <<",", " ">> \o VecDisplayLoop(v, k + 1)

VecDisplay(o) ==
    LET len == Len(o.field)
    IN  <<"[">>
            \o (IF len > 0 THEN VecDisplayLoop(o.field, 2) \o StringDisplay(o.field[len])
                ELSE <<>>)
            \o <<"]">>

\* An eq that compares the lengths of the two vecs only.
VecEq_by_length(o, other) == Len(o.field) = Len(other.field)

\* Vec<T> == Vec<T>: the lengths and then the elements, each by T's eq.
VecEq(o, other) ==
    /\ Len(o.field) = Len(other.field)
    /\ \A k \in 1..Len(o.field) : StringEq(o.field[k], other.field[k])

\* Vec<T> != Vec<T>
VecNe(o, other) ==
    \/ Len(o.field) # Len(other.field)
    \/ \E k \in 1..Len(o.field) : StringNe(o.field[k], other.field[k])

(***************************************************************************)
(* The adapter of the host framework, generated under the rocketly         *)
(* feature.  A form value is raw text in which %XX stands for the byte XX  *)
(* and + for a space.                                                      *)
(***************************************************************************)
\* The byte a %XX escape stands for: the character of an ASCII byte, and
\* "0xFF" for the byte 255, which is never part of UTF-8 text.
EscapedByte(h, l) ==
    CASE h = "4" /\ l = "8" -> "H"
      [] h = "6" /\ l = "9" -> "i"
      [] h = "3" /\ l = "0" -> "0"
      [] h = "3" /\ l = "1" -> "1"
      [] h = "F" /\ l = "F" -> "0xFF"

HexDigits == {"0", "1", "3", "4", "6", "8", "9", "F"}

RECURSIVE PercentDecode(_, _)
\* The bytes of form_value[k..] with + and the %XX escapes replaced.
PercentDecode(form_value, k) ==
    IF k > Len(form_value) THEN <<>>
    ELSE IF /\ form_value[k] = "%"
            /\ k + 2 <= Len(form_value)
            /\ form_value[k + 1] \in HexDigits
            /\ form_value[k + 2] \in HexDigits
         THEN <<EscapedByte(form_value[k + 1], form_value[k + 2])>>
                  \o PercentDecode(form_value, k + 3)
         ELSE <<IF form_value[k] = "+" THEN " " ELSE form_value[k]>>
                  \o PercentDecode(form_value, k + 1)

\* form_value.url_decode(): the decoded text, or the Utf8Error of the first
\* byte that is not text.
url_decode(form_value) ==
    LET bytes == PercentDecode(form_value, 1)
        bad == {k \in 1..Len(bytes) : bytes[k] = "0xFF"}
    IN  IF bad = {} THEN Ok(bytes)
        ELSE Err([valid_up_to |-> (CHOOSE k \in bad : \A j \in bad : k <= j) - 1])

StringFromFormValue(T, form_value) ==
    LET d == url_decode(form_value)
    IN  IF ~d.ok THEN Err(UTF8Error(d.err)) ELSE StringFromString(T, d.val)

\* A from_form_value that hands the raw form value to from_string.
NumberFromFormValue_raw(T, form_value) == NumberFromString(T, form_value)

NumberFromFormValue(T, form_value) ==
    LET d == url_decode(form_value)
    IN  IF ~d.ok THEN Err(UTF8Error(d.err)) ELSE NumberFromString(T, d.val)

VecFromFormValue(T, form_value) ==
    LET d == url_decode(form_value)
    IN  IF ~d.ok THEN Err(UTF8Error(d.err)) ELSE VecFromString(T, d.val)

(***************************************************************************)
(* The calling program: it declares the wrapper types above, receives one  *)
(* raw input for one of them, and then constructs, reads, compares, clones *)
(* and drops wrapper values held in its two variables.                     *)
(***************************************************************************)
\* #[cfg(feature = "rocketly")]
Features == {"rocketly"}

\* The threads that hold a shared reference to the wrapper.
Threads == {"t1", "t2"}

Idle == [pc |-> "idle", op |-> "none", taken |-> <<>>, seen |-> <<>>]

NoThreads == [t \in Threads |-> Idle]

MaxTextLen == 2

MaxVecLen == 6

Slots == {"a", "b"}

None == [alive |-> FALSE]

NoObjs == [s \in Slots |-> None]

NoOp == [op |-> "none", slot |-> "a", resolved |-> TRUE, rules |-> <<>>, result |-> Ok(Unit)]

NoGiven == [ty |-> "none", kind |-> "none", raw |-> <<>>]

StringTexts ==
    TextsUpTo({"H", "i"}, MaxTextLen)
        \cup {Hello, Hey, Hi \o Hello, Hi \o <<"!">>, <<"h", "i">>}

NumberTexts ==
    TextsUpTo({"-", "0", "1"}, MaxTextLen)
        \cup {ToDecimal(n) : n \in {80, 100, 101, 127, 128, 255, 256, 300, -128, -129}}
        \cup {<<"a", "b", "c">>, <<"+", "5">>, <<"0", "0", "7">>, <<"1", "a">>,
              <<"9", "9", "9", "a">>, <<" ", "1">>}

FloatTexts ==
    {<<"N", "a", "N">>, <<"0">>, <<"1">>, <<"+", "1">>, <<"0", "1">>, <<"-", "1">>,
     <<"1", "0", "0">>, <<"1", "a">>, <<"-">>, <<>>}

NumbersOf(t) ==
    IF t = "f64" THEN {0, 1, -1, NaN}
    ELSE {TyMin(t), 0, 1, 80, 100, 101, TyMax(t)} \cup (IF IsSignedTy(t) THEN {-1} ELSE {})

VecTexts == {<<>>, <<"[", "H", "i", "]">>}

Elements == {Wrapper(Greet, Hi), Wrapper(Greet, Hello)}

FormValues ==
    {Hi, Hey, <<"H", "%", "6", "9">>, <<"%", "4", "8", "i">>, <<"H", "+">>,
     <<"%", "F", "F">>, <<"H", "i", "%", "F", "F">>, <<"%">>, <<"%", "3">>,
     <<"1">>, <<"1", "0", "0">>, <<"1", "0", "1">>, <<"%", "3", "1", "%", "3", "0">>,
     <<"-", "1">>, <<"1", "%", "F", "F">>, <<>>}

\* The vecs of at most MaxVecLen elements that repeat their first two.
Vecs ==
    UNION {{v \in [1..n -> Elements] : \A k \in 3..n : v[k] = v[k - 2]} : n \in 0..MaxVecLen}

Givens ==
    {[ty |-> T.name, kind |-> "text", raw |-> x] : T \in StringTypes, x \in StringTexts}
        \cup {[ty |-> T.name, kind |-> "text", raw |-> x] :
                 T \in NumberTypes \ {Ratio}, x \in NumberTexts}
        \cup {[ty |-> Ratio.name, kind |-> "text", raw |-> x] : x \in FloatTexts}
        \cup UNION {{[ty |-> T.name, kind |-> "number", raw |-> n] : n \in NumbersOf(T.t)} :
                      T \in NumberTypes}
        \cup {[ty |-> T.name, kind |-> "text", raw |-> x] : T \in VecTypes, x \in VecTexts}
        \cup {[ty |-> T.name, kind |-> "vec", raw |-> v] : T \in VecTypes, v \in Vecs}
        \cup {[ty |-> T.name, kind |-> "form", raw |-> x] : T \in Types, x \in FormValues}

\* The inputs of the program whose wrapper threads share.
SharedGivens == {g \in Givens : g.kind \in {"text", "vec"}}

GivenType == TypeNamed(given.ty)

\* The text the constructor receives: the input, or the text the form value
\* decodes to.
GivenText == IF given.kind = "form" THEN url_decode(given.raw).val ELSE given.raw

TypeOf(o) == TypeNamed(o.ty)

\* What the construction leaves in the program's variable s.
Bind(s, r) == IF r.ok THEN [objs EXCEPT ![s] = r.val] ELSE objs

\* What a call returned: rules lists the author-supplied blocks it evaluated.
Evaluated(op, s, rules, r) ==
    [op |-> op, slot |-> s, resolved |-> TRUE, rules |-> rules, result |-> r]

\* What a call that evaluates no rule returned.
Returned(op, s, r) == Evaluated(op, s, <<>>, r)

\* A call of an associated function the type does not have: the program that
\* makes it is rejected by the compiler (E0599) and nothing is evaluated.
Unresolved(op, s) ==
    [op |-> op, slot |-> s, resolved |-> FALSE, rules |-> <<>>, result |-> Ok(Unit)]

\* The author-supplied blocks the body of a constructor expands, in the
\* order it evaluates them.
ConstructorRules(op) ==
    CASE op = "from_string" -> <<"$from_string">>
      [] op = "from_str" -> <<"$from_str">>
      [] op = "from_vec" -> <<"$from_vec">>

FromString(s) ==
    /\ given.kind = "text"
    /\ LET T == GivenType
           r == CASE T \in StringTypes -> StringFromString(T, given.raw)
                  [] T \in NumberTypes -> NumberFromString(T, given.raw)
                  [] T \in VecTypes -> VecFromString(T, given.raw)
       IN  /\ objs' = Bind(s, r)
           /\ last' = Evaluated("from_string", s, ConstructorRules("from_string"), r)
    /\ UNCHANGED <<threads, target_pointer_width, features, call, given>>

FromStr(s) ==
    /\ given.kind = "text"
    /\ LET T == GivenType
           r == CASE T \in StringTypes -> StringFromStr(T, given.raw)
                  [] T \in NumberTypes -> NumberFromStr(T, given.raw)
                  [] T \in VecTypes -> VecFromStr(T, given.raw)
       IN  /\ objs' = Bind(s, r)
           /\ last' = Evaluated("from_str", s, ConstructorRules("from_str"), r)
    /\ UNCHANGED <<threads, target_pointer_width, features, call, given>>

FromNumber(s) ==
    /\ given.kind = "number"
    /\ IF "from_number" \in NumberStructFns
       THEN LET r == NumberFromNumberBlock(GivenType, given.raw)
                w == IF r.ok THEN Ok(Wrapper(GivenType, r.val)) ELSE Err(r.err)
            IN  /\ objs' = Bind(s, w)
                /\ last' = Returned("from_number", s, w)
       ELSE /\ objs' = objs
            /\ last' = Unresolved("from_number", s)
    /\ UNCHANGED <<threads, target_pointer_width, features, call, given>>

FromVec(s) ==
    /\ given.kind = "vec"
    /\ LET r == VecFromVec(GivenType, given.raw)
       IN  /\ objs' = Bind(s, r)
           /\ last' = Evaluated("from_vec", s, ConstructorRules("from_vec"), r)
    /\ UNCHANGED <<threads, target_pointer_width, features, call, given>>

\* The associated functions of the type's own impl block.
InherentFns(T) ==
    CASE T \in StringTypes -> {"as_str", "from_string", "from_str"}
      [] T \in NumberTypes -> NumberStructFns
      [] T \in VecTypes -> {"as_vec", "into_vec", "from_string", "from_str", "from_vec"}

\* A path that names the trait's own method wherever it is written.
ResolvesTo_trait(T, f) == "trait"

\* What the path $name::f names inside impl ValidatedWrapper for $name: the
\* function of the type's own impl block when it has one called f, and the
\* trait's method, which is the one being defined, otherwise.
ResolvesTo(T, f) == IF f \in InherentFns(T) THEN "inherent" ELSE "trait"

\* A method whose body calls itself with its own argument never returns: the
\* stack overflows and the process aborts.
Reentered(op, s) ==
    [op |-> op, slot |-> s, resolved |-> TRUE, rules |-> <<>>,
     result |-> [ok |-> FALSE, aborted |-> TRUE]]

\* <$name as ValidatedWrapper>::from_string
WrapperFromString(s) ==
    /\ given.kind = "text"
    /\ IF ResolvesTo(GivenType, "from_string") = "inherent"
       THEN LET T == GivenType
                r == CASE T \in StringTypes -> StringFromString(T, given.raw)
                       [] T \in NumberTypes -> NumberFromString(T, given.raw)
                       [] T \in VecTypes -> VecFromString(T, given.raw)
            IN  /\ objs' = Bind(s, r)
                /\ last' = Evaluated("ValidatedWrapper::from_string", s,
                                     ConstructorRules("from_string"), r)
       ELSE /\ objs' = objs
            /\ last' = Reentered("ValidatedWrapper::from_string", s)
    /\ UNCHANGED <<threads, target_pointer_width, features, call, given>>

\* <$name as ValidatedWrapper>::from_str
WrapperFromStr(s) ==
    /\ given.kind = "text"
    /\ IF ResolvesTo(GivenType, "from_str") = "inherent"
       THEN LET T == GivenType
                r == CASE T \in StringTypes -> StringFromStr(T, given.raw)
                       [] T \in NumberTypes -> NumberFromStr(T, given.raw)
                       [] T \in VecTypes -> VecFromStr(T, given.raw)
            IN  /\ objs' = Bind(s, r)
                /\ last' = Evaluated("ValidatedWrapper::from_str", s,
                                     ConstructorRules("from_str"), r)
       ELSE /\ objs' = objs
            /\ last' = Reentered("ValidatedWrapper::from_str", s)
    /\ UNCHANGED <<threads, target_pointer_width, features, call, given>>

\* FromFormValue::from_form_value, which exists under the rocketly feature.
FromFormValue(s) ==
    /\ given.kind = "form"
    /\ IF "rocketly" \in features
       THEN LET T == GivenType
                d == url_decode(given.raw)
                r == CASE T \in StringTypes -> StringFromFormValue(T, given.raw)
                       [] T \in NumberTypes -> NumberFromFormValue(T, given.raw)
                       [] T \in VecTypes -> VecFromFormValue(T, given.raw)
            IN  /\ objs' = Bind(s, r)
                /\ last' = Evaluated("from_form_value", s,
                                     IF d.ok THEN ConstructorRules("from_string") ELSE <<>>, r)
       ELSE /\ objs' = objs
            /\ last' = Unresolved("from_form_value", s)
    /\ UNCHANGED <<threads, target_pointer_width, features, call, given>>

AsStr(s) ==
    /\ objs[s].alive
    /\ TypeOf(objs[s]) \in StringTypes
    /\ last' = Returned("as_str", s, StringAsStr(objs[s]))
    /\ UNCHANGED <<threads, target_pointer_width, features, call, given, objs>>

GetNumber(s) ==
    /\ objs[s].alive
    /\ TypeOf(objs[s]) \in NumberTypes
    /\ last' = Returned("get_number", s, NumberGetNumber(objs[s]))
    /\ UNCHANGED <<threads, target_pointer_width, features, call, given, objs>>

AsVec(s) ==
    /\ objs[s].alive
    /\ TypeOf(objs[s]) \in VecTypes
    /\ last' = Returned("as_vec", s, VecAsVec(objs[s]))
    /\ UNCHANGED <<threads, target_pointer_width, features, call, given, objs>>

\* into_vec takes self: the wrapper is gone, the caller owns the Vec.
IntoVec(s) ==
    /\ objs[s].alive
    /\ TypeOf(objs[s]) \in VecTypes
    /\ last' = Returned("into_vec", s, VecIntoVec(objs[s]))
    /\ objs' = [objs EXCEPT ![s] = None]
    /\ UNCHANGED <<threads, target_pointer_width, features, call, given>>

\* Display::fmt of the generated type of o.
WrapperDisplay(o) ==
    LET T == TypeOf(o)
    IN  CASE T \in StringTypes -> StringDisplay(o)
          [] T \in NumberTypes -> NumberDisplay(o)
          [] T \in VecTypes -> VecDisplay(o)

Display(s) ==
    /\ objs[s].alive
    /\ last' = Returned("display", s, WrapperDisplay(objs[s]))
    /\ UNCHANGED <<threads, target_pointer_width, features, call, given, objs>>

\* let other = $name::from_str(&s.to_string());
FromStrOfDisplay(s, other) ==
    /\ objs[s].alive
    /\ s # other
    /\ LET T == TypeOf(objs[s])
           text == WrapperDisplay(objs[s])
           r == CASE T \in StringTypes -> StringFromStr(T, text)
                  [] T \in NumberTypes -> NumberFromStr(T, text)
                  [] T \in VecTypes -> VecFromStr(T, text)
       IN  /\ objs' = Bind(other, r)
           /\ last' = [op |-> "from_str(to_string)", slot |-> s, other |-> other,
                       resolved |-> TRUE, rules |-> ConstructorRules("from_str"),
                       text |-> text, result |-> r]
    /\ UNCHANGED <<threads, target_pointer_width, features, call, given>>

Debug(s) ==
    /\ objs[s].alive
    /\ LET T == TypeOf(objs[s])
           out == CASE T \in StringTypes -> StringDebug(objs[s])
                    [] T \in NumberTypes -> NumberDebug(objs[s])
                    [] T \in VecTypes -> VecDebug(objs[s])
       IN  last' = Returned("debug", s, out)
    /\ UNCHANGED <<threads, target_pointer_width, features, call, given, objs>>

\* What a comparison of the wrapper in s with the one in other returned.
Compared(op, s, other, r) ==
    [op |-> op, slot |-> s, other |-> other, resolved |-> TRUE, rules |-> <<>>,
     result |-> r]

\* PartialEq::eq of the generated type of o.
WrapperEq(o, other) ==
    LET T == TypeOf(o)
    IN  CASE T \in StringTypes -> StringEq(o, other)
          [] T \in NumberTypes -> NumberEq(o, other)
          [] T \in VecTypes -> VecEq(o, other)

\* PartialEq::ne of the generated type of o.
WrapperNe(o, other) ==
    LET T == TypeOf(o)
    IN  CASE T \in StringTypes -> StringNe(o, other)
          [] T \in NumberTypes -> NumberNe(o, other)
          [] T \in VecTypes -> VecNe(o, other)

Eq(s, other) ==
    /\ objs[s].alive
    /\ objs[other].alive
    /\ objs[s].ty = objs[other].ty
    /\ last' = Compared("eq", s, other, WrapperEq(objs[s], objs[other]))
    /\ UNCHANGED <<threads, target_pointer_width, features, call, given, objs>>

Ne(s, other) ==
    /\ objs[s].alive
    /\ objs[other].alive
    /\ objs[s].ty = objs[other].ty
    /\ last' = Compared("ne", s, other, WrapperNe(objs[s], objs[other]))
    /\ UNCHANGED <<threads, target_pointer_width, features, call, given, objs>>

\* let other = s.clone();
Clone(s, other) ==
    /\ objs[s].alive
    /\ s # other
    /\ LET T == TypeOf(objs[s])
           c == CASE T \in StringTypes -> StringClone(objs[s])
                  [] T \in NumberTypes -> NumberClone(objs[s])
                  [] T \in VecTypes -> VecClone(objs[s])
       IN  /\ objs' = [objs EXCEPT ![other] = c]
           /\ last' = Returned("clone", s, c)
    /\ UNCHANGED <<threads, target_pointer_width, features, call, given>>

\* The variable goes out of scope.
Drop(s) ==
    /\ objs[s].alive
    /\ objs' = [objs EXCEPT ![s] = None]
    /\ last' = Returned("drop", s, Unit)
    /\ UNCHANGED <<threads, target_pointer_width, features, call, given>>

(***************************************************************************)
(* Threads that share the wrapper in the variable a by reference.  A read  *)
(* goes through &self: the thread takes the parts of the field one at a    *)
(* time (the characters of a text, the elements of a vec, the number),     *)
(* interleaved with the other threads, and returns what the method makes   *)
(* of them.  The owner drops the wrapper once no thread is reading.        *)
(***************************************************************************)
SharedReads == {"as_ref", "display", "debug", "eq", "clone"}

Shared == objs["a"]

\* The number of parts a read takes from the field of o.
Parts(o) == IF TypeOf(o) \in NumberTypes THEN 1 ELSE Len(o.field)

\* The k-th part of the field of o.
Part(o, k) == IF TypeOf(o) \in NumberTypes THEN o.field ELSE o.field[k]

\* The wrapper as the parts a thread took show it.
Seen(o, taken) ==
    [o EXCEPT !.field = IF TypeOf(o) \in NumberTypes THEN taken[1] ELSE taken]

\* A read that takes the field out of the wrapper it reads.
AfterRead_taken(o) ==
    [o EXCEPT !.field = IF TypeOf(o) \in NumberTypes THEN 0 ELSE <<>>]

\* The wrapper after a method read it through &self: no method assigns to
\* the field.
AfterRead(o) == o

\* What the method op returns for the wrapper o; eq compares with other.
ReadResult(op, o, other) ==
    LET T == TypeOf(o)
    IN  CASE op = "as_ref" /\ T \in StringTypes -> StringAsStr(o)
          [] op = "as_ref" /\ T \in NumberTypes -> NumberGetNumber(o)
          [] op = "as_ref" /\ T \in VecTypes -> VecAsVec(o)
          [] op = "display" /\ T \in StringTypes -> StringDisplay(o)
          [] op = "display" /\ T \in NumberTypes -> NumberDisplay(o)
          [] op = "display" /\ T \in VecTypes -> VecDisplay(o)
          [] op = "debug" /\ T \in StringTypes -> StringDebug(o)
          [] op = "debug" /\ T \in NumberTypes -> NumberDebug(o)
          [] op = "debug" /\ T \in VecTypes -> VecDebug(o)
          [] op = "eq" /\ T \in StringTypes -> StringEq(o, other)
          [] op = "eq" /\ T \in NumberTypes -> NumberEq(o, other)
          [] op = "eq" /\ T \in VecTypes -> VecEq(o, other)
          [] op = "clone" /\ T \in StringTypes -> StringClone(o)
          [] op = "clone" /\ T \in NumberTypes -> NumberClone(o)
          [] op = "clone" /\ T \in VecTypes -> VecClone(o)

\* The thread t calls the method op on its reference.
ThreadCall(t, op) ==
    /\ Shared.alive
    /\ threads[t].pc # "reading"
    /\ threads' = [threads EXCEPT ![t] = [Idle EXCEPT !.pc = "reading", !.op = op]]
    /\ UNCHANGED <<target_pointer_width, features, call, given, objs, last>>

\* The method the thread t runs takes the next part of the field.
ThreadRead(t) ==
    /\ threads[t].pc = "reading"
    /\ Len(threads[t].taken) < Parts(Shared)
    /\ threads' = [threads EXCEPT
                     ![t].taken = Append(@, Part(Shared, Len(@) + 1))]
    /\ objs' = [objs EXCEPT !["a"] = AfterRead(Shared)]
    /\ UNCHANGED <<target_pointer_width, features, call, given, last>>

\* The method the thread t runs returns.
ThreadReturn(t) ==
    /\ threads[t].pc = "reading"
    /\ Len(threads[t].taken) = Parts(Shared)
    /\ threads' = [threads EXCEPT
                     ![t].pc = "returned",
                     ![t].seen = ReadResult(threads[t].op, Seen(Shared, threads[t].taken),
                                            Shared)]
    /\ UNCHANGED <<target_pointer_width, features, call, given, objs, last>>

\* The owner's variable goes out of scope when no thread borrows from it.
OwnerDrop ==
    /\ \A t \in Threads : threads[t].pc # "reading"
    /\ Drop("a")

\* The owner constructs the wrapper the threads will share.
OwnerConstruct ==
    /\ last.op = "none"
    /\ \/ FromString("a")
       \/ FromStr("a")
       \/ FromVec("a")

InitThreads ==
    /\ target_pointer_width = 64
    /\ features = {}
    /\ threads = NoThreads
    /\ call = NoCall
    /\ given \in SharedGivens
    /\ objs = NoObjs
    /\ last = NoOp

NextThreads ==
    \/ OwnerConstruct
    \/ \E t \in Threads, op \in SharedReads : ThreadCall(t, op)
    \/ \E t \in Threads : ThreadRead(t)
    \/ \E t \in Threads : ThreadReturn(t)
    \/ OwnerDrop

SpecThreads == InitThreads /\ [][NextThreads]_vars

(***************************************************************************)
(* The option model.                                                       *)
(***************************************************************************)
ValidatorOption == {"Must", "Allow", "NotAllow"}

allow(option) ==
    CASE option = "Must" -> TRUE
      [] option = "Allow" -> TRUE
      [] option = "NotAllow" -> FALSE

not_allow(option) ==
    CASE option = "Must" -> FALSE
      [] option = "Allow" -> FALSE
      [] option = "NotAllow" -> TRUE

\* A must that is true of every option that is allowed.
must_when_allowed(option) == allow(option)

must(option) ==
    CASE option = "Must" -> TRUE
      [] option = "Allow" -> FALSE
      [] option = "NotAllow" -> FALSE

\* What a predicate of the option answered.
Answered(method, option, b) ==
    [op |-> method, slot |-> "a", resolved |-> TRUE, rules |-> <<>>,
     result |-> [option |-> option, is |-> b]]

CallAllow(option) ==
    /\ last' = Answered("allow", option, allow(option))
    /\ UNCHANGED <<threads, target_pointer_width, features, call, given, objs>>

CallNotAllow(option) ==
    /\ last' = Answered("not_allow", option, not_allow(option))
    /\ UNCHANGED <<threads, target_pointer_width, features, call, given, objs>>

CallMust(option) ==
    /\ last' = Answered("must", option, must(option))
    /\ UNCHANGED <<threads, target_pointer_width, features, call, given, objs>>

Init ==
    /\ target_pointer_width = 64
    /\ features \in SUBSET Features
    /\ threads = NoThreads
    /\ call = NoCall
    /\ given \in Givens
    /\ objs = NoObjs
    /\ last = NoOp

Next ==
    \/ \E s \in Slots : FromString(s)
    \/ \E s \in Slots : FromStr(s)
    \/ \E s \in Slots : FromNumber(s)
    \/ \E s \in Slots : FromVec(s)
    \/ \E s \in Slots : FromFormValue(s)
    \/ \E s \in Slots : WrapperFromString(s)
    \/ \E s \in Slots : WrapperFromStr(s)
    \/ \E s \in Slots : AsStr(s)
    \/ \E s \in Slots : GetNumber(s)
    \/ \E s \in Slots : AsVec(s)
    \/ \E s \in Slots : IntoVec(s)
    \/ \E s \in Slots : Display(s)
    \/ \E s, other \in Slots : FromStrOfDisplay(s, other)
    \/ \E s \in Slots : Debug(s)
    \/ \E s, other \in Slots : Eq(s, other)
    \/ \E s, other \in Slots : Ne(s, other)
    \/ \E s, other \in Slots : Clone(s, other)
    \/ \E s \in Slots : Drop(s)
    \/ \E option \in ValidatorOption : CallAllow(option)
    \/ \E option \in ValidatorOption : CallNotAllow(option)
    \/ \E option \in ValidatorOption : CallMust(option)

Spec == Init /\ [][Next]_vars

(***************************************************************************)
(* The specification of the comparisons: the program holds three wrappers  *)
(* of one type, each built by a constructor of the type, and compares and  *)
(* clones them.                                                            *)
(***************************************************************************)
Operands == {"a", "b", "c"}

MaxComparedLen == 2

\* The wrappers of type T the constructors build from the inputs.
ValuesOf(T) ==
    CASE T \in StringTypes ->
            {StringFromStr(T, x).val : x \in {x \in StringTexts : StringFromStr(T, x).ok}}
      [] T \in NumberTypes ->
            LET texts == IF T = Ratio THEN FloatTexts ELSE NumberTexts
            IN  {NumberFromStr(T, x).val : x \in {x \in texts : NumberFromStr(T, x).ok}}
      [] T \in VecTypes ->
            {VecFromVec(T, v).val :
                v \in {v \in Vecs : Len(v) <= MaxComparedLen /\ VecFromVec(T, v).ok}}

InitRelations ==
    /\ target_pointer_width = 64
    /\ features = {}
    /\ threads = NoThreads
    /\ call = NoCall
    /\ given = NoGiven
    /\ \E T \in Types : objs \in [Operands -> ValuesOf(T)]
    /\ last = NoOp

NextRelations ==
    \/ \E s, other \in Operands : Eq(s, other)
    \/ \E s, other \in Operands : Ne(s, other)
    \/ \E s, other \in Operands : Clone(s, other)

SpecRelations == InitRelations /\ [][NextRelations]_vars

(***************************************************************************)
(* errors::PhoneError.  The failure it wraps is opaque: the model keeps    *)
(* the text its Display writes.  The program turns a failure into a        *)
(* PhoneError, or makes an Invalid, and formats what it holds.             *)
(***************************************************************************)
MaxFailureLen == 3

\* The failure::Error values of the program.
Failures ==
    {[display |-> t] : t \in TextsUpTo({"n", "o", " "}, MaxFailureLen)}

\* PhoneError::Failure(error)
Failure(error) == [alive |-> TRUE, variant |-> "Failure", error |-> error]

\* PhoneError::Invalid
Invalid == [alive |-> TRUE, variant |-> "Invalid"]

\* A From that drops the failure.
PhoneErrorFrom_invalid(error) == Invalid

\* impl From<failure::Error> for PhoneError
PhoneErrorFrom(error) == Failure(error)

InvalidPhoneNumber ==
    <<"i", "n", "v", "a", "l", "i", "d", " ", "p", "h", "o", "n", "e", " ",
      "n", "u", "m", "b", "e", "r">>

\* impl Display for PhoneError
PhoneErrorDisplay(e) ==
    CASE e.variant = "Failure" -> e.error.display
      [] e.variant = "Invalid" -> InvalidPhoneNumber

\* let s: PhoneError = failure.into();
IntoPhoneError(s) ==
    /\ objs[s] = None
    /\ objs' = [objs EXCEPT ![s] = PhoneErrorFrom(given.raw)]
    /\ last' = Returned("from", s, PhoneErrorFrom(given.raw))
    /\ UNCHANGED <<threads, target_pointer_width, features, call, given>>

\* let s = PhoneError::Invalid;
MakeInvalid(s) ==
    /\ objs[s] = None
    /\ objs' = [objs EXCEPT ![s] = Invalid]
    /\ last' = Returned("Invalid", s, Invalid)
    /\ UNCHANGED <<threads, target_pointer_width, features, call, given>>

\* format!("{}", s)
DisplayPhoneError(s) ==
    /\ objs[s].alive
    /\ last' = Returned("display", s, PhoneErrorDisplay(objs[s]))
    /\ UNCHANGED <<threads, target_pointer_width, features, call, given, objs>>

InitPhone ==
    /\ target_pointer_width = 64
    /\ features = {}
    /\ threads = NoThreads
    /\ call = NoCall
    /\ \E error \in Failures : given = [ty |-> "PhoneError", kind |-> "failure", raw |-> error]
    /\ objs = NoObjs
    /\ last = NoOp

NextPhone ==
    \/ \E s \in Slots : IntoPhoneError(s)
    \/ \E s \in Slots : MakeInvalid(s)
    \/ \E s \in Slots : DisplayPhoneError(s)

SpecPhone == InitPhone /\ [][NextPhone]_vars

(***************************************************************************)
(* The specification of the trait cascade: the build fixes the pointer     *)
(* width, the program then calls entry points of any implementer.          *)
(***************************************************************************)
InitCascade ==
    /\ target_pointer_width \in PointerWidths
    /\ features = {}
    /\ threads = NoThreads
    /\ \E impl \in Impls, ty \in EntryTypes :
         \E x \in SignedInputs(BytesOf(ty)) \cup UnsignedInputs(BytesOf(ty)) :
            call = [NoCall EXCEPT !.impl = impl, !.ty = ty, !.arg = x]
    /\ given = NoGiven
    /\ objs = NoObjs
    /\ last = NoOp

NextCascade ==
    \/ CallParseSigned
    \/ CallValidateSigned
    \/ CallParseUnsigned
    \/ CallValidateUnsigned

SpecCascade == InitCascade /\ [][NextCascade]_vars

(***************************************************************************)
(* The cascade one call at a time.  The program calls one entry point; the *)
(* method that runs is the implementer's own, which returns, the required  *)
(* 128-bit method, which returns, or a provided method, which calls the    *)
(* next method with the converted argument.                                *)
(***************************************************************************)
MaxHops == 8

\* A cascade in which the 32-bit method calls itself.
Callee_itself(at) ==
    CASE at = "8" -> "16"
      [] at = "16" -> "32"
      [] at = "32" -> "32"
      [] at = "64" -> "128"
      [] at = "size" ->
            CASE target_pointer_width = 128 -> "128"
              [] target_pointer_width = 32 -> "32"
              [] target_pointer_width = 16 -> "16"
              [] target_pointer_width = 8 -> "8"
              [] OTHER -> "64"

\* The type of the method the body of the provided method for the type at
\* calls.
Callee(at) ==
    CASE at = "8" -> "16"
      [] at = "16" -> "32"
      [] at = "32" -> "64"
      [] at = "64" -> "128"
      [] at = "size" ->
            CASE target_pointer_width = 128 -> "128"
              [] target_pointer_width = 32 -> "32"
              [] target_pointer_width = 16 -> "16"
              [] target_pointer_width = 8 -> "8"
              [] OTHER -> "64"

\* The argument that body passes: From between the fixed-width types and
\* from the pointer-sized type of a 128-bit target, an `as` cast otherwise.
Passed(signed, at, x) ==
    LET n == BytesOf(Callee(at))
    IN  IF at = "size" /\ target_pointer_width # 128
        THEN IF signed THEN AsSigned(x, n) ELSE AsUnsigned(x, n)
        ELSE IF signed THEN SignExtend(x, n) ELSE ZeroExtend(x, n)

\* The name of the method the call is in.
Running ==
    call.method \o (IF call.trait = "ValidateSignedInteger" THEN "_i" ELSE "_u") \o call.at

\* The arguments of the program's calls, in n bytes.
DelegationInputs(n) == {MinOf(n), Encode(1, n), UMaxOf(n)}

\* A provided method calls the next one.
Delegate ==
    /\ call.pc = "called"
    /\ call.at # "128"
    /\ call.impl.over # Running
    /\ call.hops < MaxHops
    /\ call' = [call EXCEPT !.at = Callee(call.at),
                            !.x = Passed(call.trait = "ValidateSignedInteger", call.at, call.x),
                            !.hops = call.hops + 1]
    /\ UNCHANGED <<threads, target_pointer_width, features, given, objs, last>>

\* The implementer's own method returns.
ReturnOverridden ==
    /\ call.pc = "called"
    /\ call.impl.over = Running
    /\ call' = [call EXCEPT !.pc = "returned", !.result = Overridden(Running, call.x)]
    /\ UNCHANGED <<threads, target_pointer_width, features, given, objs, last>>

\* The required 128-bit method returns.
ReturnRequired ==
    /\ call.pc = "called"
    /\ call.at = "128"
    /\ call' = [call EXCEPT
                  !.pc = "returned",
                  !.result = CASE Running = "parse_i128" -> parse_i128(call.impl, call.x)
                               [] Running = "validate_i128" -> validate_i128(call.impl, call.x)
                               [] Running = "parse_u128" -> parse_u128(call.impl, call.x)
                               [] Running = "validate_u128" -> validate_u128(call.impl, call.x)]
    /\ UNCHANGED <<threads, target_pointer_width, features, given, objs, last>>

InitDelegation ==
    /\ target_pointer_width \in PointerWidths
    /\ features = {}
    /\ threads = NoThreads
    /\ \E impl \in Impls, ty \in EntryTypes :
         \E trait \in {"ValidateSignedInteger", "ValidateUnsignedInteger"},
            method \in {"parse", "validate"}, x \in DelegationInputs(BytesOf(ty)) :
            call = [trait |-> trait, method |-> method, ty |-> ty, impl |-> impl,
                    arg |-> x, result |-> Ok(Unit),
                    pc |-> "called", at |-> ty, x |-> x, hops |-> 0]
    /\ given = NoGiven
    /\ objs = NoObjs
    /\ last = NoOp

NextDelegation ==
    \/ Delegate
    \/ ReturnOverridden
    \/ ReturnRequired

\* A call that was made runs: the program is sequential.
SpecDelegation == InitDelegation /\ [][NextDelegation]_vars /\ WF_vars(NextDelegation)

IsSigned == call.trait = "ValidateSignedInteger"

IsUnsigned == call.trait = "ValidateUnsignedInteger"

\* The implementer defines the required pair only.
AllDefaults == call.impl.over = "none"

\* C2: under the default cascade, validate at a narrower fixed width returns
\* what the 128-bit validate returns on the sign-extended (signed trait) or
\* zero-extended (unsigned trait) argument.
WideningCorrectness ==
    (AllDefaults /\ call.method = "validate" /\ call.ty \in FixedTypes) =>
        /\ IsSigned =>
             call.result = validate_i128(call.impl, SignExtend(call.arg, 16))
        /\ IsUnsigned =>
             call.result = validate_u128(call.impl, ZeroExtend(call.arg, 16))

\* validate_i8(-5) was called on an implementer that rejects negative values,
\* and was rejected.
WideningWitness ==
    /\ IsSigned
    /\ call.method = "validate"
    /\ call.ty = "8"
    /\ call.arg = Encode(-5, 1)
    /\ call.impl.validate = "nonneg"
    /\ ~call.result.ok

\* The 128-bit values the sampled arguments widen to.
WideSigned ==
    UNION {{SignExtend(i, 16) : i \in SignedInputs(n)} : n \in {1, 2, 4, 8, 16}}

WideUnsigned ==
    UNION {{ZeroExtend(u, 16) : u \in UnsignedInputs(n)} : n \in {1, 2, 4, 8, 16}}

\* The implementer's required pair agrees on acceptance.
WidestPairAgrees ==
    /\ IsSigned =>
         \A x \in WideSigned :
            parse_i128(call.impl, x).ok = validate_i128(call.impl, x).ok
    /\ IsUnsigned =>
         \A x \in WideUnsigned :
            parse_u128(call.impl, x).ok = validate_u128(call.impl, x).ok

\* C3: when the implementer's 128-bit parse and validate agree on acceptance,
\* the default parse and validate agree on acceptance at every entry point,
\* the pointer-sized ones included.
ParseValidateAgree ==
    (AllDefaults /\ WidestPairAgrees) =>
        /\ (IsSigned /\ call.method = "parse") =>
             call.result.ok = ValidateSigned(call.impl, call.ty, call.arg).ok
        /\ (IsSigned /\ call.method = "validate") =>
             call.result.ok = ParseSigned(call.impl, call.ty, call.arg).ok
        /\ (IsUnsigned /\ call.method = "parse") =>
             call.result.ok = ValidateUnsigned(call.impl, call.ty, call.arg).ok
        /\ (IsUnsigned /\ call.method = "validate") =>
             call.result.ok = ParseUnsigned(call.impl, call.ty, call.arg).ok

\* parse_usize was called on an implementer whose pair agrees, and rejected.
ParseValidateWitness ==
    /\ IsUnsigned
    /\ AllDefaults
    /\ WidestPairAgrees
    /\ call.method = "parse"
    /\ call.ty = "size"
    /\ ~call.result.ok

(***************************************************************************)
(* Properties of the wrapper families.                                     *)
(***************************************************************************)
TextConstructors == {"from_string", "from_str"}

ReadOps ==
    {"as_str", "get_number", "as_vec", "into_vec", "display", "debug", "eq", "ne", "clone"}

\* The pattern of the regex type T compiles.
Compiles(T) == T.re.syntax_ok /\ T.re.size <= REGEX_SIZE_LIMIT

\* The predicate the type T was declared with, on the value of the field.
Satisfies(T, field) ==
    CASE T.family = "regex_string" -> Compiles(T) /\ is_match(T.re, field)
      [] T.family = "ranged_number" ->
            /\ field \in TyMin(T.t)..TyMax(T.t)
            /\ T.min <= field
            /\ field <= T.max
      [] T.family = "ranged_length_vec" ->
            /\ T.min <= Len(field)
            /\ Len(field) <= T.max
            /\ \A k \in 1..Len(field) : field[k] \in Elements
      [] T.t = "f64" -> field = NaN \/ (-F64Whole < field /\ field < F64Whole)
      [] OTHER -> field \in TyMin(T.t)..TyMax(T.t)

AllSatisfy == \A s \in Slots : objs[s].alive => Satisfies(TypeOf(objs[s]), objs[s].field)

\* A read leaves every wrapper as it was: into_vec, which takes self, ends the
\* wrapper it is called on, and clone puts the copy in the other variable.
ReadsKeepField ==
    last'.op \in ReadOps =>
        \A s \in Slots :
           objs[s].alive =>
              \/ objs'[s] = objs[s]
              \/ last'.op = "into_vec" /\ last'.slot = s /\ objs'[s] = None
              \/ last'.op = "clone" /\ last'.slot # s /\ objs'[s] = objs[last'.slot]

\* C1: every wrapper value alive satisfies the predicate its type declares, in
\* every reachable state, and no operation exposed after construction changes
\* the wrapped field.
PredicateForLife == []AllSatisfy /\ [][ReadsKeepField]_vars

\* A Names value is alive in a while the vec in b was taken out with into_vec.
PredicateForLifeWitness ==
    /\ objs["a"].alive
    /\ objs["a"].ty = "Names"
    /\ last.op = "into_vec"
    /\ last.slot = "b"
    /\ ~objs["b"].alive

IsStringCall == last.op \in TextConstructors /\ GivenType \in StringTypes

\* C4: for a regex-string type and a text t, from_string(t) and from_str(t)
\* are both Ok with equal wrappers that wrap exactly t, or both Err with the
\* same variant.
FromStringFromStrAgree ==
    IsStringCall =>
        LET other == IF last.op = "from_string"
                     THEN StringFromStr(GivenType, given.raw)
                     ELSE StringFromString(GivenType, given.raw)
        IN  IF last.result.ok
            THEN /\ other.ok
                 /\ StringEq(last.result.val, other.val)
                 /\ last.result.val.field = given.raw
                 /\ other.val.field = given.raw
            ELSE /\ ~other.ok
                 /\ other.err.variant = last.result.err.variant

\* Greet::from_str("Hello") returned a wrapper.
FromStringFromStrWitness ==
    /\ last.op = "from_str"
    /\ given.ty = "Greet"
    /\ given.raw = Hello
    /\ last.result.ok

\* C5: the Display form and as_str of a string wrapper built from the text t
\* are exactly t.
StringRoundTrip ==
    (last.op \in {"display", "as_str"} /\ GivenType \in StringTypes) =>
        last.result = GivenText

\* The Display form of the Greet built from "Hello" was read.
StringRoundTripWitness ==
    /\ last.op = "display"
    /\ given.ty = "Greet"
    /\ last.result = Hello

\* C6: a regex-string type whose pattern compiles accepts a text exactly when
\* the pattern matches it and answers NotMatch otherwise; Greet, declared with
\* ^(Hi|Hello)$, accepts "Hi" and "Hello" and no other text, displays them
\* back unchanged, and rejects "Hey" with NotMatch.
RegexStringAccepts ==
    /\ (IsStringCall /\ Compiles(GivenType)) =>
          /\ last.result.ok <=> is_match(GivenType.re, given.raw)
          /\ last.result.ok => last.result.val = Wrapper(GivenType, given.raw)
          /\ ~last.result.ok => last.result.err = NotMatch
    /\ (IsStringCall /\ given.ty = "Greet") =>
          /\ last.result.ok <=> given.raw \in {Hi, Hello}
          /\ given.raw = Hey => last.result = Err(NotMatch)
    /\ (last.op = "display" /\ given.ty = "Greet") => last.result \in {Hi, Hello}

\* Greet::from_string("Hey") returned NotMatch.
RegexStringWitness ==
    /\ last.op = "from_string"
    /\ given.ty = "Greet"
    /\ given.raw = Hey
    /\ last.result = Err(NotMatch)

IsRegexType(T) == T.family \in {"regex_string", "regex_number"}

\* C7: when the pattern fails to compile, every regex-based entry point
\* (from_string and from_str of a string type; from_string, from_str and
\* from_number of a number type) returns the RegexError variant for every
\* input, never NotMatch and never a wrapper.
CompileFailureIsRegexError ==
    (/\ last.op \in {"from_string", "from_str", "from_number"}
     /\ IsRegexType(GivenType)
     /\ ~Compiles(GivenType)) =>
        /\ last.resolved
        /\ ~last.result.ok
        /\ last.result.err.variant = "RegexError"

IsRangedCall == last.op \in TextConstructors /\ GivenType.family = "ranged_number"

\* The parsed value is accepted iff it lies in the closed interval, and is
\* rejected with OutRange otherwise; text that does not parse is a ParseError.
RangedByInterval ==
    IsRangedCall =>
        LET T == GivenType
            v == ParseInt(T.t, given.raw)
        IN  IF v.ok
            THEN /\ last.result.ok <=> (T.min <= v.val /\ v.val <= T.max)
                 /\ last.result.ok => last.result.val = Wrapper(T, v.val)
                 /\ ~last.result.ok => last.result.err = OutRange
            ELSE /\ ~last.result.ok
                 /\ last.result.err.variant = "ParseError"

\* The cases of the bounds [0, 100] that do not depend on the numeric type.
RangedBoundaryCases ==
    (IsRangedCall /\ GivenType.min = 0 /\ GivenType.max = 100) =>
        /\ given.raw \in {ToDecimal(0), ToDecimal(100)} => last.result.ok
        /\ given.raw = ToDecimal(101) => last.result = Err(OutRange)
        /\ given.raw = <<"a", "b", "c">> =>
              (~last.result.ok /\ last.result.err.variant = "ParseError")

\* C8 as stated: with bounds [0, 100], "0" and "100" are accepted, "-1" and
\* "101" are rejected with OutRange and "abc" with ParseError, and a parsed
\* value is accepted iff it lies in [min, max], OutRange otherwise.
RangeBoundaryAsStated ==
    /\ RangedByInterval
    /\ RangedBoundaryCases
    /\ (IsRangedCall /\ GivenType.min = 0 /\ GivenType.max = 100) =>
          (given.raw = ToDecimal(-1) => last.result = Err(OutRange))

\* C8, amended: as stated, except that "-1" is rejected with OutRange when the
\* numeric type is signed and with ParseError when it is unsigned (the u8 of
\* the Score example), where "-1" does not parse.
RangeBoundary ==
    /\ RangedByInterval
    /\ RangedBoundaryCases
    /\ (IsRangedCall /\ GivenType.min = 0 /\ GivenType.max = 100) =>
          (given.raw = ToDecimal(-1) =>
              IF IsSignedTy(GivenType.t)
              THEN last.result = Err(OutRange)
              ELSE ~last.result.ok /\ last.result.err.variant = "ParseError")

\* Score::from_str("-1"), over u8, returned a ParseError.
RangeBoundaryWitness ==
    /\ last.op = "from_str"
    /\ given.ty = "Score"
    /\ given.raw = ToDecimal(-1)
    /\ ~last.result.ok
    /\ last.result.err.variant = "ParseError"

\* C9: every customized-number type has a from_number(value) constructor that
\* applies the predicate of the textual constructors: it is Ok iff from_str of
\* the decimal text of the value is Ok, with equal wrappers, and on rejection
\* the variant is the same.
FromNumberAgrees ==
    (last.op = "from_number" /\ GivenType \in NumberTypes) =>
        /\ last.resolved
        /\ LET other == NumberFromStr(GivenType, ToDecimal(given.raw))
           IN  IF last.result.ok
               THEN other.ok /\ NumberEq(last.result.val, other.val)
               ELSE ~other.ok /\ other.err.variant = last.result.err.variant

IsFromVec == last.op = "from_vec" /\ GivenType.family = "ranged_length_vec"

\* from_vec is Ok iff the length is within the bounds, and then wraps the vec.
VecByLength ==
    IsFromVec =>
        LET T == GivenType
            len == Len(given.raw)
        IN  /\ last.result.ok <=> (T.min <= len /\ len <= T.max)
            /\ last.result.ok => last.result.val = Wrapper(T, given.raw)
            /\ len > T.max => last.result = Err(Overflow)

\* Names, with bounds [1, 5], and Pair, with the single bound 2.
VecBoundaryCases ==
    /\ (IsFromVec /\ given.ty = "Names") =>
          /\ Len(given.raw) = 0 => last.result = Err(Underflow)
          /\ Len(given.raw) = 6 => last.result = Err(Overflow)
          /\ Len(given.raw) = 5 => last.result.ok
    /\ (IsFromVec /\ given.ty = "Pair") =>
          (last.result.ok <=> Len(given.raw) = 2)

\* C10 as stated: from_vec is Ok iff min <= len <= max, Overflow when
\* len > max and Underflow when len < min.
LengthBoundaryAsStated ==
    /\ VecByLength
    /\ VecBoundaryCases
    /\ IsFromVec => (Len(given.raw) < GivenType.min => last.result = Err(Underflow))

\* C10, amended: Underflow is returned when len < min and len <= max; a
\* length above max gives Overflow also when it is below min (a type declared
\* with min > max).
LengthBoundary ==
    /\ VecByLength
    /\ VecBoundaryCases
    /\ IsFromVec =>
          ((Len(given.raw) < GivenType.min /\ Len(given.raw) <= GivenType.max) =>
              last.result = Err(Underflow))

\* Names::from_vec of five elements returned a wrapper.
LengthBoundaryWitness ==
    /\ last.op = "from_vec"
    /\ given.ty = "Names"
    /\ Len(given.raw) = 5
    /\ last.result.ok

IsVecType == GivenType \in VecTypes

\* C11: a ranged-length vec type declared without textual rules answers
\* NotSupport to from_string and from_str for every text and binds no value;
\* of its constructors only from_vec ever returns a wrapper.
TextualIsNotSupport ==
    IsVecType =>
        /\ (last.op \in TextConstructors) =>
              /\ last.result = Err(NotSupport)
              /\ objs = NoObjs
        /\ (last.op \in TextConstructors \cup {"from_vec"} /\ last.result.ok) =>
              last.op = "from_vec"

\* Names::from_str("[Hi]") was refused with NotSupport.
TextualIsNotSupportWitness ==
    /\ given.ty = "Names"
    /\ given.kind = "text"
    /\ given.raw = <<"[", "H", "i", "]">>
    /\ last.op = "from_str"
    /\ last.result = Err(NotSupport)

RECURSIVE DisplayedInOrder(_, _)
\* The Display output of the elements v[k..], each once, joined by ", ".
DisplayedInOrder(v, k) ==
    IF k > Len(v) THEN <<>>
    ELSE IF k = Len(v) THEN StringDisplay(v[k])
    ELSE StringDisplay(v[k]) \o <<",", " ">> \o DisplayedInOrder(v, k + 1)

RECURSIVE DebuggedInOrder(_, _)
\* The Debug output of the elements v[k..], each once, joined by ", ".
DebuggedInOrder(v, k) ==
    IF k > Len(v) THEN <<>>
    ELSE IF k = Len(v) THEN StringDebug(v[k])
    ELSE StringDebug(v[k]) \o <<",", " ">> \o DebuggedInOrder(v, k + 1)

IsVecRendering ==
    /\ last.op \in {"display", "debug"}
    /\ objs[last.slot].alive
    /\ TypeOf(objs[last.slot]) \in VecTypes

\* C12: Display and Debug of a vec wrapper write, between the brackets, the
\* Display (Debug) output of every element exactly once, in sequence order,
\* separated by ", "; Debug writes the type's name before the bracket.
VecRendersEachOnce ==
    IsVecRendering =>
        LET o == objs[last.slot]
        IN  /\ last.op = "display" =>
                 last.result = <<"[">> \o DisplayedInOrder(o.field, 1) \o <<"]">>
            /\ last.op = "debug" =>
                 last.result = TypeOf(o).ident \o <<"[">>
                                  \o DebuggedInOrder(o.field, 1) \o <<"]">>

OptionPredicates == {"allow", "not_allow", "must"}

\* The tri-state table of the option model.
TriState(method, option) ==
    CASE method = "allow" -> option \in {"Must", "Allow"}
      [] method = "not_allow" -> option = "NotAllow"
      [] method = "must" -> option = "Must"

\* Exactly one of the formulas in the set holds.
ExactlyOne(bs) == Cardinality({k \in DOMAIN bs : bs[k]}) = 1

\* C13: the predicates of ValidatorOption follow the tri-state table; for
\* every option exactly one of allow() && !must(), must(), not_allow() holds,
\* and must() implies allow().
OptionTriState ==
    last.op \in OptionPredicates =>
        LET o == last.result.option
        IN  /\ last.result.is = TriState(last.op, o)
            /\ ExactlyOne(<<allow(o) /\ ~must(o), must(o), not_allow(o)>>)
            /\ must(o) => allow(o)

\* must() was asked of Allow and answered false.
OptionTriStateWitness ==
    /\ last.op = "must"
    /\ last.result.option = "Allow"
    /\ last.result.is = FALSE

\* What the author-supplied rule of the type T answers to the constructor op.
RuleOf(op, T, raw) ==
    CASE op = "from_string" /\ T \in StringTypes -> RegexStringFromString(T, raw)
      [] op = "from_string" /\ T \in NumberTypes -> NumberFromStringBlock(T, raw)
      [] op = "from_string" /\ T \in VecTypes -> RangedLengthVecFromString(T, raw)
      [] op = "from_str" /\ T \in StringTypes -> RegexStringFromStr(T, raw)
      [] op = "from_str" /\ T \in NumberTypes -> NumberFromStrBlock(T, raw)
      [] op = "from_str" /\ T \in VecTypes -> RangedLengthVecFromStr(T, raw)
      [] op = "from_vec" -> RangedLengthVecFromVec(T, raw)

DefinedConstructors == TextConstructors \cup {"from_vec"}

\* The constructor returned a result, and it is the rule's: the wrapper of the
\* rule's value, bound to the caller's variable, or the rule's error.
ReturnsTheRule ==
    last.op \in DefinedConstructors =>
        LET r == RuleOf(last.op, GivenType, given.raw)
        IN  /\ last.resolved
            /\ last.result.ok = r.ok
            /\ r.ok =>
                 /\ last.result.val = Wrapper(GivenType, r.val)
                 /\ objs[last.slot] = last.result.val
            /\ ~r.ok => last.result.err = r.err

\* A constructor that failed left every variable of the caller as it was.
FailureBindsNothing ==
    (last'.op \in DefinedConstructors /\ ~last'.result.ok) => objs' = objs

\* C14: construction is all-or-nothing: a constructor returns Ok of the
\* wrapper whose field is the value the rule returned, or Err of the rule's
\* error, and in that case no wrapper value comes into existence.
AllOrNothing == []ReturnsTheRule /\ [][FailureBindsNothing]_vars

\* Greet::from_str("Hey") returned NotMatch and the caller holds no Greet.
AllOrNothingWitness ==
    /\ given.ty = "Greet"
    /\ given.raw = Hey
    /\ last.op = "from_str"
    /\ last.result = Err(NotMatch)
    /\ objs = NoObjs

\* The fixed-width entry points of the pointer's width.
WidthName ==
    CASE target_pointer_width = 8 -> "8"
      [] target_pointer_width = 16 -> "16"
      [] target_pointer_width = 32 -> "32"
      [] target_pointer_width = 64 -> "64"
      [] target_pointer_width = 128 -> "128"

PointerBytes == target_pointer_width \div 8

\* The result of the entry point of the same trait and kind for the type ty.
EntryResult(ty, x) ==
    CASE IsSigned /\ call.method = "parse" -> ParseSigned(call.impl, ty, x)
      [] IsSigned /\ call.method = "validate" -> ValidateSigned(call.impl, ty, x)
      [] IsUnsigned /\ call.method = "parse" -> ParseUnsigned(call.impl, ty, x)
      [] IsUnsigned /\ call.method = "validate" -> ValidateUnsigned(call.impl, ty, x)

\* C15: on each pointer width w of 8, 16, 32, 64 and 128 bits the isize and
\* usize entry points answer what the implementer's fixed-width entry point
\* of width w answers, the conversion to that width keeps every bit, and
\* under the default methods the answer is that of the 128-bit entry point
\* on the sign-extended (zero-extended) argument.
PointerSizedDelegation ==
    (call.method # "none" /\ call.ty = "size") =>
        /\ target_pointer_width \in PointerWidths
        /\ Len(call.arg) = PointerBytes
        /\ IsSigned => AsSigned(call.arg, PointerBytes) = call.arg
        /\ IsUnsigned => AsUnsigned(call.arg, PointerBytes) = call.arg
        /\ call.result = EntryResult(WidthName, call.arg)
        /\ AllDefaults =>
             call.result = EntryResult("128", IF IsSigned THEN SignExtend(call.arg, 16)
                                                ELSE ZeroExtend(call.arg, 16))

\* On a 32-bit target validate_isize(101) reached the validate_i32 the
\* implementer wrote, which accepts odd values; its range rule accepts none
\* above 100.
PointerSizedWitness ==
    /\ target_pointer_width = 32
    /\ IsSigned
    /\ call.method = "validate"
    /\ call.ty = "size"
    /\ call.impl.over = "validate_i32"
    /\ call.arg = Encode(101, 4)
    /\ call.result.ok

\* C16: under the rocketly feature from_form_value decodes the form value
\* first; when the decoding fails it returns the family's UTF8Error and
\* evaluates no rule, and when it gives the text t it returns what
\* from_string(t) returns, in the three families.
FormValueDecodesFirst ==
    (last.op = "from_form_value" /\ "rocketly" \in features) =>
        LET T == GivenType
            d == url_decode(given.raw)
        IN  /\ last.resolved
            /\ ~d.ok =>
                 /\ last.result = Err(UTF8Error(d.err))
                 /\ last.rules = <<>>
                 /\ objs = NoObjs
            /\ d.ok =>
                 last.result =
                    CASE T \in StringTypes -> StringFromString(T, d.val)
                      [] T \in NumberTypes -> NumberFromString(T, d.val)
                      [] T \in VecTypes -> VecFromString(T, d.val)

\* Score::from_form_value("%31%30") returned the Score of 10.
FormValueWitness ==
    /\ "rocketly" \in features
    /\ given.ty = "Score"
    /\ given.kind = "form"
    /\ given.raw = <<"%", "3", "1", "%", "3", "0">>
    /\ last.op = "from_form_value"
    /\ last.result = Ok(Wrapper(Score, 10))

\* Greet::from_form_value("Hi%FF") returned UTF8Error.
FormValueUndecodedWitness ==
    /\ "rocketly" \in features
    /\ given.ty = "Greet"
    /\ given.kind = "form"
    /\ given.raw = <<"H", "i", "%", "F", "F">>
    /\ last.op = "from_form_value"
    /\ ~last.result.ok
    /\ last.result.err = UTF8Error([valid_up_to |-> 2])

\* The wrapper the owner constructed.
Constructed == last.result.val

\* C17: threads that read one constructed wrapper concurrently, in any
\* interleaving, each observe the value fixed at construction: no read
\* changes the wrapped field, every part a reader takes is a part of the
\* constructed value, what a method returns is what it returns for the
\* constructed value, and the value read satisfies the predicate.
ReadersSeeConstructed ==
    Shared.alive =>
        /\ last.op \in DefinedConstructors
        /\ Shared = Constructed
        /\ Satisfies(TypeOf(Shared), Shared.field)
        /\ \A t \in Threads :
              /\ threads[t].pc = "reading" =>
                   /\ Len(threads[t].taken) <= Parts(Constructed)
                   /\ \A k \in 1..Len(threads[t].taken) :
                         threads[t].taken[k] = Part(Constructed, k)
              /\ threads[t].pc = "returned" =>
                   threads[t].seen = ReadResult(threads[t].op, Constructed, Constructed)

\* One thread is in the middle of the Names vec of three elements while the
\* other has its Display output.
ReadersWitness ==
    /\ Shared.alive
    /\ Shared.ty = "Names"
    /\ Len(Shared.field) = 3
    /\ threads["t1"].pc = "reading"
    /\ Len(threads["t1"].taken) = 1
    /\ threads["t2"].pc = "returned"
    /\ threads["t2"].op = "display"

IsTraitEntry == last.op \in {"ValidatedWrapper::from_string", "ValidatedWrapper::from_str"}

\* What the type's own constructor of the same name returns for the input.
OwnConstructor ==
    LET T == GivenType
    IN  CASE last.op = "ValidatedWrapper::from_string" /\ T \in StringTypes ->
                StringFromString(T, given.raw)
          [] last.op = "ValidatedWrapper::from_string" /\ T \in NumberTypes ->
                NumberFromString(T, given.raw)
          [] last.op = "ValidatedWrapper::from_string" /\ T \in VecTypes ->
                VecFromString(T, given.raw)
          [] last.op = "ValidatedWrapper::from_str" /\ T \in StringTypes ->
                StringFromStr(T, given.raw)
          [] last.op = "ValidatedWrapper::from_str" /\ T \in NumberTypes ->
                NumberFromStr(T, given.raw)
          [] last.op = "ValidatedWrapper::from_str" /\ T \in VecTypes ->
                VecFromStr(T, given.raw)

\* C18: a constructor call evaluates the author-supplied rule exactly once;
\* the entry points of the ValidatedWrapper trait return what the type's own
\* constructor of the same name returns, evaluating the rule once and not
\* re-entering themselves; no read evaluates a rule.
RuleOnce ==
    /\ last.op \in DefinedConstructors => Len(last.rules) = 1
    /\ IsTraitEntry =>
         /\ Len(last.rules) = 1
         /\ last.result = OwnConstructor
    /\ last.op \in ReadOps => last.rules = <<>>

\* <Score as ValidatedWrapper>::from_str("80") evaluated $from_str once and
\* returned the Score of 80.
RuleOnceWitness ==
    /\ given.ty = "Score"
    /\ last.op = "ValidatedWrapper::from_str"
    /\ last.rules = <<"$from_str">>
    /\ last.result = Ok(Wrapper(Score, 80))

\* The name of the method of the called trait and kind for the type ty.
MethodName(ty) ==
    (IF call.method = "parse" THEN "parse_" ELSE "validate_")
        \o (IF IsSigned THEN "i" ELSE "u") \o ty

\* The argument of the call widened to n bytes.
Widened(n) == IF IsSigned THEN SignExtend(call.arg, n) ELSE ZeroExtend(call.arg, n)

\* C19: when the implementer defines one provided method of a cascade itself,
\* at the level m, the entry points of every width up to m return what that
\* method returns for the widened argument, whatever the 128-bit method would
\* answer, and the entry points of every greater width return what the
\* 128-bit method returns; in both cascades of both traits.
OverrideCascade ==
    (call.method # "none" /\ call.ty \in FixedTypes) =>
        \A m \in {"8", "16", "32", "64"} :
           call.impl.over = MethodName(m) =>
              /\ BytesOf(call.ty) <= BytesOf(m) =>
                   call.result = Overridden(call.impl.over, Widened(BytesOf(m)))
              /\ BytesOf(call.ty) > BytesOf(m) =>
                   call.result = EntryResult("128", Widened(16))

\* validate_i8(101) was accepted by the validate_i32 the implementer wrote,
\* while its validate_i128 rejects 101.
OverrideCascadeWitness ==
    /\ IsSigned
    /\ call.method = "validate"
    /\ call.ty = "8"
    /\ call.impl.over = "validate_i32"
    /\ call.arg = Encode(101, 1)
    /\ call.result.ok
    /\ ~validate_i128(call.impl, SignExtend(call.arg, 16)).ok

\* parse_u64(100) went to parse_u128 although the implementer wrote parse_u16.
OverrideAboveWitness ==
    /\ IsUnsigned
    /\ call.method = "parse"
    /\ call.ty = "64"
    /\ call.impl.over = "parse_u16"
    /\ call.arg = Encode(100, 8)
    /\ call.result = Ok(Encode(100, 16))

IsRegexNumberCall == last.op \in TextConstructors /\ GivenType.family = "regex_number"

\* C20: the textual constructors of a regex-number type compile the pattern,
\* then test the text, then parse it: a pattern that does not compile gives
\* RegexError for every text; with a compiled pattern a text that does not
\* match gives NotMatch, whether or not it parses; a text that matches and
\* does not parse gives ParseError with the description of the parse failure;
\* a text that matches and parses is accepted with the parsed number.
CompileMatchParse ==
    IsRegexNumberCall =>
        LET T == GivenType
            re == RegexBuild(T.re, REGEX_SIZE_LIMIT)
            n == ParseInt(T.t, given.raw)
        IN  last.result =
               IF ~re.ok THEN Err(RegexError(re.err))
               ELSE IF ~is_match(re.val, given.raw) THEN Err(NotMatch)
               ELSE IF ~n.ok THEN Err(ParseError(n.err))
               ELSE Ok(Wrapper(T, n.val))

\* Count::from_str("+5") returned NotMatch although "+5" parses as a u8.
CompileMatchParseWitness ==
    /\ given.ty = "Count"
    /\ given.kind = "text"
    /\ given.raw = <<"+", "5">>
    /\ ParseInt("u8", given.raw) = Ok(5)
    /\ last.op = "from_str"
    /\ last.result = Err(NotMatch)

\* Count::from_string("300") matched and returned the ParseError of u8.
MatchedUnparsedWitness ==
    /\ given.ty = "Count"
    /\ given.kind = "text"
    /\ given.raw = <<"3", "0", "0">>
    /\ last.op = "from_string"
    /\ last.result = Err(ParseError(ErrPosOverflow))

(***************************************************************************)
(* Equality and cloning of the generated types.                            *)
(***************************************************************************)
\* The texts a vec of wrappers holds, in order.
TextsOf(v) == [k \in 1..Len(v) |-> v[k].field]

\* The wrapped fields of o and other are equal, by the equality of the type
\* of the field.
FieldsEqual(o, other) ==
    LET T == TypeOf(o)
    IN  CASE T \in StringTypes -> o.field = other.field
          [] T \in NumberTypes -> PrimEq(T.t, o.field, other.field)
          [] T \in VecTypes -> TextsOf(o.field) = TextsOf(other.field)

\* The field of o is equal to itself: every text, every whole number, every
\* vec of texts, and no NaN.
SelfEqual(o) == FieldsEqual(o, o)

IsComparison == last.op \in {"eq", "ne"}

\* eq answers whether the fields are equal and ne answers the opposite.
EqByField ==
    /\ last.op = "eq" => last.result = FieldsEqual(objs[last.slot], objs[last.other])
    /\ last.op = "ne" => last.result = ~WrapperEq(objs[last.slot], objs[last.other])

EqSymmetric ==
    \A x, y \in Operands : WrapperEq(objs[x], objs[y]) => WrapperEq(objs[y], objs[x])

EqTransitive ==
    \A x, y, z \in Operands :
       WrapperEq(objs[x], objs[y]) /\ WrapperEq(objs[y], objs[z])
           => WrapperEq(objs[x], objs[z])

\* C21 as stated: eq(a, b) holds iff the wrapped fields are equal, ne(a, b) is
\* the negation of eq(a, b), equality is reflexive, symmetric and transitive
\* over the constructed values, and clone(a) is equal to a.
EqualityLawsAsStated ==
    /\ EqByField
    /\ EqSymmetric
    /\ EqTransitive
    /\ \A x \in Operands : WrapperEq(objs[x], objs[x])
    /\ last.op = "clone" => WrapperEq(last.result, objs[last.slot])

\* C21: eq(a, b) holds iff the wrapped fields are equal, ne(a, b) is the
\* negation of eq(a, b), and equality is symmetric and transitive over the
\* constructed values; a wrapper is equal to itself and to its clone iff its
\* field is equal to itself, which a NaN held by a float wrapper is not.
EqualityLaws ==
    /\ EqByField
    /\ EqSymmetric
    /\ EqTransitive
    /\ \A x \in Operands : WrapperEq(objs[x], objs[x]) <=> SelfEqual(objs[x])
    /\ last.op = "clone" =>
          (WrapperEq(last.result, objs[last.slot]) <=> SelfEqual(objs[last.slot]))

\* Ratio::from_str("NaN") is Ok, and eq of the wrapper it returns with itself
\* returned false.
EqualityLawsWitness ==
    /\ last.op = "eq"
    /\ last.slot = last.other
    /\ objs[last.slot].ty = "Ratio"
    /\ objs[last.slot].field = NaN
    /\ last.result = FALSE

\* Names [Hi] and Names [Hello] were compared with eq, which returned false.
UnequalVecsWitness ==
    /\ last.op = "eq"
    /\ objs[last.slot].ty = "Names"
    /\ Len(objs[last.slot].field) = Len(objs[last.other].field)
    /\ last.result = FALSE

(***************************************************************************)
(* The vec a wrapper was built from and the vec it gives back.             *)
(***************************************************************************)
\* C22: from_vec keeps the vec it is given: when from_vec(v) is Ok the wrapper
\* holds exactly v, which it is for every v whose length is within the bounds,
\* and as_vec and into_vec of a wrapper built from v return exactly v, the
\* same elements in the same order.
FromVecKeepsTheVec ==
    given.kind = "vec" =>
        /\ last.op = "from_vec" /\ last.result.ok => last.result.val.field = given.raw
        /\ last.op = "from_vec"
              /\ GivenType.min <= Len(given.raw) /\ Len(given.raw) <= GivenType.max
              => last.result.ok
        /\ last.op \in {"as_vec", "into_vec"} => last.result = given.raw

\* into_vec of the Names built from [Hi, Hello, Hi] returned [Hi, Hello, Hi].
FromVecKeepsTheVecWitness ==
    /\ given.kind = "vec"
    /\ given.ty = "Names"
    /\ last.op = "into_vec"
    /\ Len(last.result) = 3
    /\ last.result[1] # last.result[2]
    /\ ~objs[last.slot].alive

(***************************************************************************)
(* Termination of the cascade.                                             *)
(***************************************************************************)
\* The number of calls between the entry point and the running method.
DelegationBound == call.hops <= (IF call.ty = "size" THEN 5 ELSE 4)

\* A call from a fixed-width method goes to a strictly wider type; the call
\* from the pointer-sized method goes to the fixed-width type of the
\* pointer's own size.
DelegatesWider ==
    call'.hops # call.hops =>
        /\ call'.hops = call.hops + 1
        /\ call'.at # "size"
        /\ IF call.at = "size"
           THEN BytesOf(call'.at) = BytesOf("size")
           ELSE BytesOf(call'.at) > BytesOf(call.at)

\* What the call returned is what the 128-bit method returns for the
\* argument, when the implementer defines the required methods only.
ReturnsFromWidest ==
    call.pc = "returned" /\ call.impl.over = "none" =>
        /\ call.at = "128"
        /\ call.result =
              CASE Running = "parse_i128" -> ParseSigned(call.impl, call.ty, call.arg)
                [] Running = "validate_i128" -> ValidateSigned(call.impl, call.ty, call.arg)
                [] Running = "parse_u128" -> ParseUnsigned(call.impl, call.ty, call.arg)
                [] Running = "validate_u128" -> ValidateUnsigned(call.impl, call.ty, call.arg)

ParsesBeforeRange ==
    IsRangedCall =>
        LET T == GivenType
            v == Parse(T.t, given.raw)
        IN  /\ ~v.ok => last.result = Err(ParseError(v.err))
            /\ last.result = Err(OutRange)
                  <=> v.ok /\ ~(T.min <= v.val /\ v.val <= T.max)

\* Score::from_string("-1"), over u8, returned ParseError and not OutRange.
ParsesBeforeRangeWitness ==
    /\ last.op = "from_string"
    /\ given.ty = "Score"
    /\ given.raw = <<"-", "1">>
    /\ last.result = Err(ParseError(ErrInvalidDigit))

\* Level::from_str("-1"), over i8, returned OutRange.
SignedOutRangeWitness ==
    /\ last.op = "from_str"
    /\ given.ty = "Level"
    /\ given.raw = <<"-", "1">>
    /\ last.result = Err(OutRange)

(***************************************************************************)
(* Parsing the Display form of a number wrapper.                           *)
(***************************************************************************)
IsReparse ==
    /\ last.op = "from_str(to_string)"
    /\ TypeOf(objs[last.slot]).family \in {"ranged_number", "primitive_number"}

\* The Display form of a number wrapper built from text is the Display form
\* of the number the text parses to.
DisplaysTheNumber ==
    last.op = "display" /\ GivenType.family \in {"ranged_number", "primitive_number"} =>
        last.result = DisplayOf(GivenType.t, Parse(GivenType.t, GivenText).val)

\* C25 as stated: for every constructed ranged or primitive number wrapper x,
\* from_str(display(x)) is Ok and equal to x.
DisplayRoundTripAsStated ==
    IsReparse => last.result.ok /\ WrapperEq(last.result.val, objs[last.slot])

\* C25: for every constructed ranged or primitive number wrapper x,
\* from_str(display(x)) is Ok and holds the number x holds, and it is equal to
\* x iff that number is equal to itself, which every number but the NaN of a
\* float type is; the Display form depends on the number only, so that two
\* texts that parse to the same number give the same Display form.
DisplayRoundTrip ==
    /\ IsReparse =>
          /\ last.result.ok
          /\ last.result.val = objs[last.slot]
          /\ objs[last.other] = last.result.val
          /\ WrapperEq(last.result.val, objs[last.slot]) <=> SelfEqual(objs[last.slot])
    /\ DisplaysTheNumber

\* Ratio::from_str("NaN") displays as NaN, which from_str accepts again; the
\* wrapper it returns holds a NaN too.
DisplayRoundTripWitness ==
    /\ IsReparse
    /\ objs[last.slot].ty = "Ratio"
    /\ last.text = <<"N", "a", "N">>
    /\ last.result.ok
    /\ ~WrapperEq(last.result.val, objs[last.slot])

\* Octet::from_str("01") displays as 1: the text does not come back.
TextDoesNotComeBackWitness ==
    /\ last.op = "display"
    /\ given.ty = "Octet"
    /\ given.raw = <<"0", "1">>
    /\ last.result = <<"1">>

\* Score::from_str("100") displays as 100, which from_str accepts as an equal
\* Score.
ScoreComesBackWitness ==
    /\ IsReparse
    /\ objs[last.slot].ty = "Score"
    /\ last.text = <<"1", "0", "0">>
    /\ last.result.ok
    /\ WrapperEq(last.result.val, objs[last.slot])

(***************************************************************************)
(* A ranged-length vec declared with min > max.                            *)
(***************************************************************************)
\* The type was declared with a least length above its greatest length.
IsInverted(T) == T.family = "ranged_length_vec" /\ T.min > T.max

InvertedUnderflowWitness ==
    /\ IsFromVec
    /\ given.ty = "Inverted"
    /\ Len(given.raw) = 2
    /\ last.result = Err(Underflow)

(***************************************************************************)
(* PhoneError.                                                             *)
(***************************************************************************)
\* C27: a PhoneError is a Failure or an Invalid; From of a failure is always
\* the Failure that carries that failure; the Display text of a Failure is the
\* Display text of the failure it carries, and the Display text of Invalid is
\* "invalid phone number".
PhoneErrorOutcomes ==
    /\ \A s \in Slots :
          objs[s].alive =>
             \/ objs[s].variant = "Invalid"
             \/ objs[s].variant = "Failure" /\ objs[s].error = given.raw
    /\ last.op = "from" =>
          /\ last.result.variant = "Failure"
          /\ last.result.error = given.raw
          /\ objs[last.slot] = last.result
    /\ last.op = "display" =>
          last.result = IF objs[last.slot].variant = "Failure"
                        THEN given.raw.display
                        ELSE InvalidPhoneNumber

\* The PhoneError made from the failure that displays as "no" displays as "no".
PhoneErrorOutcomesWitness ==
    /\ last.op = "display"
    /\ objs[last.slot].variant = "Failure"
    /\ given.raw.display = <<"n", "o">>
    /\ last.result = <<"n", "o">>

\* An Invalid was formatted as "invalid phone number".
InvalidDisplayedWitness ==
    /\ last.op = "display"
    /\ objs[last.slot].variant = "Invalid"
    /\ last.result = InvalidPhoneNumber

=============================================================================
